---- MODULE Spec2Model ----
(***************************************************************************)
(* A model of the two services of the image analyzer:                      *)
(*   src/src/services/exifService.ts    (extractExifData, formatFileSize)  *)
(*   src/src/services/geminiService.ts  (analyzeImageWithGemini,           *)
(*                                       formatExifDataForPrompt)          *)
(*                                                                         *)
(* and of the component that calls them:                                   *)
(*   src/src/components/ImageAnalyzer.tsx  (handleImageUpload)             *)
(*                                                                         *)
(* The specifications share the variables:                                 *)
(*   Spec         two independent runs of extractExifData on one file      *)
(*   SpecLive     the same, every pending browser event firing             *)
(*   SpecFormat   formatFileSize applied to a byte count                   *)
(*   SpecAnalyze  one call of analyzeImageWithGemini                       *)
(*   SpecUpload   calls of handleImageUpload, overlapping in time          *)
(*   SpecPrompt   formatExifDataForPrompt applied to a metadata record     *)
(* A specification keeps the variables of the others at their idle         *)
(* values.                                                                 *)
(***************************************************************************)
EXTENDS Integers, Sequences, FiniteSets, TLC

VARIABLES
    imageFile,      \* the File handed to a service: [name, size, type]
    world,          \* what the browser and the tag decoder answer (extractExifData)
    urlReader,      \* per run: the data-URL FileReader
    img,            \* per run: the Image element
    reader,         \* per run: the ArrayBuffer FileReader
    loadedImage,    \* per run: the closure's flag
    loadedExif,     \* per run: the closure's flag
    fileInfo,       \* per run: the closure's fileInfo object
    exifData,       \* per run: the closure's exifData object
    promise,        \* per run: the returned promise, [state, value]
    resolveCalls,   \* per run: how many times resolve() was called
    bytes,          \* SpecFormat: the argument of formatFileSize
    formatted,      \* SpecFormat: [done, text]
    service,        \* SpecAnalyze: what the FileReader and the hosted model answer
    pc,             \* SpecAnalyze: where analyzeImageWithGemini is suspended
    encodeCalls,    \* SpecAnalyze: calls of fileToGenerativePart
    generateCalls,  \* SpecAnalyze: calls of model.generateContent
    outcome,        \* SpecAnalyze: how the returned promise settled
    result,         \* SpecUpload: the component's result state
    isExifLoading,  \* SpecUpload: the component's isExifLoading state
    aiError,        \* SpecUpload: the component's aiError state
    uploads,        \* SpecUpload: per call of handleImageUpload, where it stands
    promptData,     \* SpecPrompt: the argument of formatExifDataForPrompt
    promptText      \* SpecPrompt: [done, text]

vars ==
    <<imageFile, world, urlReader, img, reader, loadedImage, loadedExif,
      fileInfo, exifData, promise, resolveCalls, bytes, formatted, service,
      pc, encodeCalls, generateCalls, outcome, result, isExifLoading,
      aiError, uploads, promptData, promptText>>

exifVars ==
    <<imageFile, world, urlReader, img, reader, loadedImage, loadedExif,
      fileInfo, exifData, promise, resolveCalls>>

formatVars ==
    <<bytes, formatted>>

analyzeVars ==
    <<service, pc, encodeCalls, generateCalls, outcome>>

uploadVars ==
    <<result, isExifLoading, aiError, uploads>>

promptVars ==
    <<promptData, promptText>>

(***************************************************************************)
(* JavaScript values.  A text is a sequence of one-character strings.  A   *)
(* number is the decimal m / 10^d, kept normalised (d = 0 or m not a       *)
(* multiple of 10), so that equal numbers are equal records.  Every value  *)
(* is a record of the same shape:                                          *)
(*   t = "str"   s = the characters                                        *)
(*   t = "num"   m, d                                                      *)
(*   t = "nan" | "null" | "undef"                                          *)
(*   t = "obj"   a nested structure; s = its JSON.stringify text           *)
(*   t = "list"  an array of texts; l = its elements                       *)
(***************************************************************************)
JV(t, s, m, d, l) ==
    [t |-> t, s |-> s, m |-> m, d |-> d, l |-> l]

Str(s) ==
    JV("str", s, 0, 0, <<>>)

RECURSIVE NormNum(_, _)
NormNum(m, d) ==
    IF d > 0 /\ m % 10 = 0 THEN NormNum(m \div 10, d - 1)
    ELSE JV("num", <<>>, m, d, <<>>)

Num(m, d) ==
    NormNum(m, d)

IntNum(n) ==
    Num(n, 0)

NaN ==
    JV("nan", <<>>, 0, 0, <<>>)

Null ==
    JV("null", <<>>, 0, 0, <<>>)

Undef ==
    JV("undef", <<>>, 0, 0, <<>>)

Obj(json) ==
    JV("obj", json, 0, 0, <<>>)

List(l) ==
    JV("list", <<>>, 0, 0, l)

\* JavaScript truthiness: "", 0, NaN, null and undefined are falsy.
Truthy(v) ==
    CASE v.t = "str" -> v.s # <<>>
      [] v.t = "num" -> v.m # 0
      [] v.t \in {"nan", "null", "undef"} -> FALSE
      [] OTHER -> TRUE

\* -v for a number (NaN stays NaN).
Neg(v) ==
    IF v.t = "num" THEN Num(0 - v.m, v.d) ELSE v

(***************************************************************************)
(* Characters and decimal texts.                                           *)
(***************************************************************************)
Digits ==
    <<"0", "1", "2", "3", "4", "5", "6", "7", "8", "9">>

IsDigit(c) ==
    \E i \in 1..10 : Digits[i] = c

DigitVal(c) ==
    (CHOOSE i \in 1..10 : Digits[i] = c) - 1

RECURSIVE Pow(_, _)
Pow(b, e) ==
    IF e = 0 THEN 1 ELSE b * Pow(b, e - 1)

RECURSIVE NatChars(_)
NatChars(n) ==
    IF n < 10 THEN <<Digits[n + 1]>>
    ELSE NatChars(n \div 10) \o <<Digits[(n % 10) + 1]>>

\* n written with at least w digits (zero padded on the left).
RECURSIVE PadChars(_, _)
PadChars(n, w) ==
    IF w <= 1 THEN NatChars(n)
    ELSE IF n < Pow(10, w - 1) THEN <<"0">> \o PadChars(n, w - 1)
    ELSE NatChars(n)

\* The value of a run of digits.
RECURSIVE DigitsVal(_)
DigitsVal(cs) ==
    IF cs = <<>> THEN 0
    ELSE 10 * DigitsVal(SubSeq(cs, 1, Len(cs) - 1)) + DigitVal(cs[Len(cs)])

\* The longest prefix of cs made of digits.
RECURSIVE DigitPrefix(_)
DigitPrefix(cs) ==
    IF cs # <<>> /\ IsDigit(cs[1])
    THEN <<cs[1]>> \o DigitPrefix(Tail(cs))
    ELSE <<>>

RECURSIVE SkipSpaces(_)
SkipSpaces(cs) ==
    IF cs # <<>> /\ cs[1] = " " THEN SkipSpaces(Tail(cs)) ELSE cs

Drop(cs, n) ==
    SubSeq(cs, n + 1, Len(cs))

\* String(number): the decimal text of m / 10^d.
NumberToString(v) ==
    LET a == IF v.m < 0 THEN 0 - v.m ELSE v.m
        p == Pow(10, v.d)
        sign == IF v.m < 0 THEN <<"-">> ELSE <<>>
        frac == IF v.d = 0 THEN <<>> ELSE <<".">> \o PadChars(a % p, v.d)
    IN  IF v.t = "nan" THEN <<"N", "a", "N">>
        ELSE sign \o NatChars(a \div p) \o frac

\* Number.parseInt(text, 10): leading blanks, an optional sign, then the
\* longest run of digits; NaN when there is none.
parseInt(cs) ==
    LET t == SkipSpaces(cs)
        neg == t # <<>> /\ t[1] = "-"
        u == IF t # <<>> /\ t[1] \in {"-", "+"} THEN Tail(t) ELSE t
        ds == DigitPrefix(u)
    IN  IF ds = <<>> THEN NaN
        ELSE IntNum(IF neg THEN 0 - DigitsVal(ds) ELSE DigitsVal(ds))

\* Number.parseFloat(text): leading blanks, an optional sign, digits, and an
\* optional "." with digits; NaN when no digit is read.  (Exponents are not
\* read: no text of the model writes one.)
parseFloat(cs) ==
    LET t == SkipSpaces(cs)
        neg == t # <<>> /\ t[1] = "-"
        u == IF t # <<>> /\ t[1] \in {"-", "+"} THEN Tail(t) ELSE t
        ip == DigitPrefix(u)
        r == Drop(u, Len(ip))
        fp == IF r # <<>> /\ r[1] = "." THEN DigitPrefix(Tail(r)) ELSE <<>>
        mag == DigitsVal(ip) * Pow(10, Len(fp)) + DigitsVal(fp)
    IN  IF ip = <<>> /\ fp = <<>> THEN NaN
        ELSE Num(IF neg THEN 0 - mag ELSE mag, Len(fp))

(***************************************************************************)
(* formatFileSize (exifService.ts 38-46).                                  *)
(***************************************************************************)
k ==
    1024

sizes ==
    << <<"B", "y", "t", "e", "s">>, <<"K", "B">>, <<"M", "B">>, <<"G", "B">> >>

\* Math.floor(Math.log(bytes) / Math.log(k)) for bytes >= 1: the largest i
\* with k^i <= size (the floating-point quotient agrees with it on the
\* whole range of byte counts the model can hold, up to 2^31 - 1).
RECURSIVE LogFloor(_)
LogFloor(size) ==
    IF size < k THEN 0 ELSE 1 + LogFloor(size \div k)

\* floor(r * 100 / k^i + 1/2) for 0 <= r < k^i, the hundredths that toFixed(2)
\* rounds the fraction r / k^i to (half up).  It is floor((25 r + 2^(10i-3)) /
\* 2^(10i-2)); for i = 3 the dividend is split at 2^14 so that no intermediate
\* value leaves the 32-bit range.
FracHundredths(r, i) ==
    CASE i = 0 -> 0
      [] i \in {1, 2} -> (25 * r + Pow(2, 10 * i - 3)) \div Pow(2, 10 * i - 2)
      [] OTHER ->
           LET a == r \div 16384
               b == r % 16384
           IN  ((25 * a + 8192) + ((25 * b) \div 16384)) \div 16384

\* (bytes / k ** i).toFixed(2), as a count of hundredths.
ScaledHundredths(size, i) ==
    LET p == Pow(k, i)
    IN  (size \div p) * 100 + FracHundredths(size % p, i)

\* x.toFixed(2) for x = h / 100, h >= 0.
toFixed2(h) ==
    NatChars(h \div 100) \o <<".">> \o PadChars(h % 100, 2)

formatFileSizeIndex(size) ==
    LogFloor(size)

formatFileSize(size) ==
    IF size = 0 THEN <<"0", " ", "B", "y", "t", "e", "s">>
    ELSE LET i == formatFileSizeIndex(size)
             value == parseFloat(toFixed2(ScaledHundredths(size, i)))
             unit == IF i + 1 <= Len(sizes) THEN sizes[i + 1]
                     ELSE <<"u", "n", "d", "e", "f", "i", "n", "e", "d">>
         IN  NumberToString(value) \o <<" ">> \o unit

(***************************************************************************)
(* Objects with string keys (ExifData): functions from their keys.         *)
(***************************************************************************)
EmptyObject ==
    [x \in {} |-> Null]

\* obj[key]; a missing key reads as undefined.
Get(obj, key) ==
    IF key \in DOMAIN obj THEN obj[key] ELSE Undef

\* obj[key] = v
Put(obj, key, v) ==
    [x \in (DOMAIN obj) \cup {key} |-> IF x = key THEN v ELSE obj[x]]

\* { ...a, ...b }: the keys of both, b's value where both have the key.
Spread(a, b) ==
    [x \in (DOMAIN a) \cup (DOMAIN b) |-> IF x \in DOMAIN b THEN b[x] ELSE a[x]]

(***************************************************************************)
(* safeValue (exifService.ts 8-31).  A boolean is not among the modelled    *)
(* values; an object or array becomes its JSON text.                       *)
(***************************************************************************)
RECURSIVE JoinTexts(_, _)
JoinTexts(l, sep) ==
    IF l = <<>> THEN <<>>
    ELSE IF Len(l) = 1 THEN l[1]
    ELSE l[1] \o sep \o JoinTexts(Tail(l), sep)

\* String(v), as Number.parseFloat and Number.parseInt first apply it.
ToText(v) ==
    CASE v.t = "str" -> v.s
      [] v.t = "num" -> NumberToString(v)
      [] v.t = "nan" -> <<"N", "a", "N">>
      [] v.t = "null" -> <<"n", "u", "l", "l">>
      [] v.t = "undef" -> <<"u", "n", "d", "e", "f", "i", "n", "e", "d">>
      [] v.t = "list" -> JoinTexts([i \in 1..Len(v.l) |-> v.l[i].s], <<",">>)
      [] OTHER -> <<"[", "o", "b", "j", "e", "c", "t", " ", "O", "b", "j", "e", "c", "t", "]">>

\* JSON.stringify of an array of texts.
JsonOfList(l) ==
    <<"[">>
    \o JoinTexts([i \in 1..Len(l) |-> <<"\"">> \o l[i].s \o <<"\"">>], <<",">>)
    \o <<"]">>

JsonStringify(v) ==
    IF v.t = "list" THEN JsonOfList(v.l) ELSE v.s

safeValueIdentity(value) ==
    value

safeValue(value) ==
    CASE value.t \in {"null", "undef"} -> Null
      [] value.t \in {"str", "num", "nan"} -> value
      [] OTHER -> Str(JsonStringify(value))

(***************************************************************************)
(* formatExifDate (exifService.ts 53-83).                                  *)
(***************************************************************************)
MonthNames ==
    << <<"J", "a", "n", "u", "a", "r", "y">>,
       <<"F", "e", "b", "r", "u", "a", "r", "y">>,
       <<"M", "a", "r", "c", "h">>,
       <<"A", "p", "r", "i", "l">>,
       <<"M", "a", "y">>,
       <<"J", "u", "n", "e">>,
       <<"J", "u", "l", "y">>,
       <<"A", "u", "g", "u", "s", "t">>,
       <<"S", "e", "p", "t", "e", "m", "b", "e", "r">>,
       <<"O", "c", "t", "o", "b", "e", "r">>,
       <<"N", "o", "v", "e", "m", "b", "e", "r">>,
       <<"D", "e", "c", "e", "m", "b", "e", "r">> >>

AllDigits(cs) ==
    \A i \in 1..Len(cs) : IsDigit(cs[i])

\* /^(\d{4}):(\d{2}):(\d{2})\s(\d{2}):(\d{2}):(\d{2})$/ (the only white
\* space of the model's texts is the blank).
MatchesExifDate(cs) ==
    /\ Len(cs) = 19
    /\ AllDigits(SubSeq(cs, 1, 4))
    /\ cs[5] = ":"
    /\ AllDigits(SubSeq(cs, 6, 7))
    /\ cs[8] = ":"
    /\ AllDigits(SubSeq(cs, 9, 10))
    /\ cs[11] = " "
    /\ AllDigits(SubSeq(cs, 12, 13))
    /\ cs[14] = ":"
    /\ AllDigits(SubSeq(cs, 15, 16))
    /\ cs[17] = ":"
    /\ AllDigits(SubSeq(cs, 18, 19))

IsLeap(y) ==
    (y % 4 = 0 /\ y % 100 # 0) \/ y % 400 = 0

\* Days of month mo (0 = January) of year y.
DaysIn(y, mo) ==
    CASE mo = 1 -> IF IsLeap(y) THEN 29 ELSE 28
      [] mo \in {3, 5, 8, 10} -> 30
      [] OTHER -> 31

\* new Date(...) carries a day count outside the month into the
\* neighbouring months.
RECURSIVE NormDay(_, _, _)
NormDay(y, mo, d) ==
    IF d < 1
    THEN LET py == IF mo = 0 THEN y - 1 ELSE y
             pm == IF mo = 0 THEN 11 ELSE mo - 1
         IN  NormDay(py, pm, d + DaysIn(py, pm))
    ELSE IF d > DaysIn(y, mo)
    THEN NormDay(IF mo = 11 THEN y + 1 ELSE y,
                 IF mo = 11 THEN 0 ELSE mo + 1,
                 d - DaysIn(y, mo))
    ELSE [year |-> y, month |-> mo, day |-> d]

\* new Date(year, month, day, hour, minute, second) in local time (no
\* daylight-saving shift in the zone): a year 0..99 means 1900 + year, and
\* every field out of range carries into the next.
NewDate(year, month, day, hour, minute, second) ==
    LET y0 == IF year \in 0..99 THEN 1900 + year ELSE year
        mi == minute + (second \div 60)
        h == hour + (mi \div 60)
        y1 == y0 + (month \div 12)
        ymd == NormDay(y1, month % 12, day + (h \div 24))
    IN  [year |-> ymd.year, month |-> ymd.month, day |-> ymd.day,
         hour |-> h % 24, minute |-> mi % 60]

\* Intl.DateTimeFormat("en-US", {year: "numeric", month: "long", day:
\* "numeric", hour: "2-digit", minute: "2-digit"}).format(date).  The text
\* between date and time is ", " or " at " by the version of the locale data.
FormatDate(date, locale) ==
    LET h12 == IF date.hour % 12 = 0 THEN 12 ELSE date.hour % 12
        sep == IF locale = "at" THEN <<" ", "a", "t", " ">> ELSE <<",", " ">>
    IN  MonthNames[date.month + 1] \o <<" ">> \o NatChars(date.day)
        \o <<",", " ">> \o NatChars(date.year) \o sep
        \o PadChars(h12, 2) \o <<":">> \o PadChars(date.minute, 2)
        \o <<" ">> \o (IF date.hour < 12 THEN <<"A", "M">> ELSE <<"P", "M">>)

\* dateString.match is no function of a number: the call throws.
formatExifDateThrows(dateString) ==
    Truthy(dateString) /\ dateString.t # "str"

formatExifDateBlankOnMismatch(dateString, locale) ==
    IF ~Truthy(dateString) \/ ~MatchesExifDate(dateString.s) THEN Str(<<>>)
    ELSE dateString

formatExifDate(dateString, locale) ==
    IF ~Truthy(dateString) THEN Str(<<>>)
    ELSE IF ~MatchesExifDate(dateString.s) THEN dateString
    ELSE LET cs == dateString.s
             date == NewDate(DigitsVal(SubSeq(cs, 1, 4)),
                             DigitsVal(SubSeq(cs, 6, 7)) - 1,
                             DigitsVal(SubSeq(cs, 9, 10)),
                             DigitsVal(SubSeq(cs, 12, 13)),
                             DigitsVal(SubSeq(cs, 15, 16)),
                             DigitsVal(SubSeq(cs, 18, 19)))
         IN  Str(FormatDate(date, locale))

(***************************************************************************)
(* extractExifData (exifService.ts 90-276): the pure parts.                *)
(***************************************************************************)
UpperCase ==
    <<"A", "B", "C", "D", "E", "F", "G", "H", "I", "J", "K", "L", "M",
      "N", "O", "P", "Q", "R", "S", "T", "U", "V", "W", "X", "Y", "Z">>

LowerCase ==
    <<"a", "b", "c", "d", "e", "f", "g", "h", "i", "j", "k", "l", "m",
      "n", "o", "p", "q", "r", "s", "t", "u", "v", "w", "x", "y", "z">>

toLowerCase(cs) ==
    [i \in 1..Len(cs) |->
        IF \E j \in 1..26 : UpperCase[j] = cs[i]
        THEN LowerCase[CHOOSE j \in 1..26 : UpperCase[j] = cs[i]]
        ELSE cs[i]]

\* name.split(".").pop(): the text after the last ".", the whole name when
\* it has none.
RECURSIVE LastSegment(_)
LastSegment(cs) ==
    IF cs = <<>> \/ cs[Len(cs)] = "." THEN <<>>
    ELSE LastSegment(SubSeq(cs, 1, Len(cs) - 1)) \o <<cs[Len(cs)]>>

\* imageFile.name.split(".").pop()?.toLowerCase() || ""
fileExtension(name) ==
    toLowerCase(LastSegment(name))

\* The fileInfo object of lines 94-100.
InitialFileInfo(file) ==
    [x \in {"fileName", "fileSize", "fileSizeBytes", "fileType", "fileExtension"} |->
        CASE x = "fileName" -> Str(file.name)
          [] x = "fileSize" -> Str(formatFileSize(file.size))
          [] x = "fileSizeBytes" -> IntNum(file.size)
          [] x = "fileType" -> Str(file.type)
          [] OTHER -> Str(fileExtension(file.name))]

\* (img.width / img.height).toFixed(2); the quotients of the model's
\* dimensions have no tie at the third decimal that binary rounding could
\* move.
aspectRatio(w, h) ==
    IF h = 0
    THEN (IF w = 0 THEN <<"N", "a", "N">>
          ELSE <<"I", "n", "f", "i", "n", "i", "t", "y">>)
    ELSE toFixed2((200 * w + h) \div (2 * h))

\* img.onload, lines 124-126.
WithImageDimensions(fi, w, h) ==
    Put(Put(Put(fi, "imageWidth", IntNum(w)), "imageHeight", IntNum(h)),
        "aspectRatio", Str(aspectRatio(w, h)))

\* exifData.<key> = safeValue(tags.<tag>.description) when the tag is there.
CopyTag(e, tags, tag, key) ==
    IF tag \in DOMAIN tags THEN Put(e, key, safeValue(tags[tag])) ELSE e

\* A numeric tag: the parsed number, undefined when it does not parse.
NumberOrUndefined(n) ==
    IF n.t = "nan" THEN Undef ELSE n

\* Lines 204-223.
GpsSignIgnored(ref, positive, value) ==
    value

GpsSign(ref, positive, value) ==
    IF ref = Str(<<positive>>) THEN value ELSE Neg(value)

WithGps(e, tags) ==
    IF {"GPSLatitude", "GPSLatitudeRef", "GPSLongitude", "GPSLongitudeRef"}
           \subseteq DOMAIN tags
    THEN LET latValue == parseFloat(ToText(tags["GPSLatitude"]))
             lngValue == parseFloat(ToText(tags["GPSLongitude"]))
             e1 == Put(e, "gpsLatitude",
                       GpsSign(tags["GPSLatitudeRef"], "N", latValue))
             e2 == Put(e1, "gpsLongitude",
                       GpsSign(tags["GPSLongitudeRef"], "E", lngValue))
         IN  IF "GPSAltitude" \in DOMAIN tags
             THEN Put(e2, "gpsAltitude",
                      NumberOrUndefined(parseFloat(ToText(tags["GPSAltitude"]))))
             ELSE e2
    ELSE e

\* Lines 226-238: a dimension of the tags, taken when fileInfo has none (yet).
DimensionGuard(fi, key) ==
    ~Truthy(Get(fi, key))

WithExifDimension(e, tags, fi, tag, key) ==
    IF tag \in DOMAIN tags /\ DimensionGuard(fi, key)
    THEN LET n == parseInt(ToText(tags[tag]))
         IN  IF n.t = "nan" THEN e ELSE Put(e, key, n)
    ELSE e

\* Lines 241-245: every tag whose key holds nothing truthy yet.
IsExtraTag(e, tags, key) ==
    key \in DOMAIN tags /\ ~Truthy(Get(e, key)) /\ tags[key].t # "undef"

WithOtherTags(e, tags) ==
    [x \in (DOMAIN e) \cup {y \in DOMAIN tags : IsExtraTag(e, tags, y)} |->
        IF IsExtraTag(e, tags, x) THEN safeValue(tags[x]) ELSE e[x]]

\* Lines 248-252: the final sweep.
WithoutObjects(e) ==
    [x \in DOMAIN e |->
        IF e[x].t \in {"obj", "list"} THEN Str(JsonStringify(e[x])) ELSE e[x]]

\* Lines 160-252 on the tags ExifReader.load returned: the exifData object
\* as the handler leaves it, and whether it left by an exception (caught at
\* line 256; the object keeps what was stored before).
ProcessTags(tags, fi, locale) ==
    LET e1 == CopyTag(EmptyObject, tags, "Make", "make")
        e2 == CopyTag(e1, tags, "Model", "model")
        rawDateTime == safeValue(Get(tags, "DateTime"))
        e3 == IF "DateTime" \in DOMAIN tags
              THEN Put(Put(e2, "dateTime", formatExifDate(rawDateTime, locale)),
                       "rawDateTime", rawDateTime)
              ELSE e2
        e4 == CopyTag(e3, tags, "ExposureTime", "exposureTime")
        e5 == IF "FNumber" \in DOMAIN tags
              THEN Put(e4, "fNumber",
                       NumberOrUndefined(parseFloat(ToText(tags["FNumber"]))))
              ELSE e4
        e6 == IF "ISOSpeedRatings" \in DOMAIN tags
              THEN Put(e5, "iso",
                       NumberOrUndefined(parseInt(ToText(tags["ISOSpeedRatings"]))))
              ELSE e5
        e7 == CopyTag(e6, tags, "FocalLength", "focalLength")
        e8 == WithGps(e7, tags)
        e9 == WithExifDimension(e8, tags, fi, "ImageWidth", "imageWidth")
        e10 == WithExifDimension(e9, tags, fi, "ImageHeight", "imageHeight")
        e11 == WithOtherTags(e10, tags)
    IN  IF "DateTime" \in DOMAIN tags /\ formatExifDateThrows(rawDateTime)
        THEN [data |-> e2, threw |-> TRUE]
        ELSE [data |-> WithoutObjects(e11), threw |-> FALSE]

(***************************************************************************)
(* The idle values a specification gives the variables it does not use.    *)
(***************************************************************************)
NoFile ==
    [name |-> <<>>, size |-> 0, type |-> <<>>]

ExifIdle ==
    /\ imageFile = NoFile
    /\ world = <<>>
    /\ urlReader = <<>>
    /\ img = <<>>
    /\ reader = <<>>
    /\ loadedImage = <<>>
    /\ loadedExif = <<>>
    /\ fileInfo = <<>>
    /\ exifData = <<>>
    /\ promise = <<>>
    /\ resolveCalls = <<>>

FormatIdle ==
    /\ bytes = 0
    /\ formatted = [done |-> FALSE, text |-> <<>>]

AnalyzeIdle ==
    /\ service = <<>>
    /\ pc = "idle"
    /\ encodeCalls = 0
    /\ generateCalls = 0
    /\ outcome = <<>>

UploadIdle ==
    /\ result = <<>>
    /\ isExifLoading = FALSE
    /\ aiError = <<>>
    /\ uploads = <<>>

PromptIdle ==
    /\ promptData = <<>>
    /\ promptText = [done |-> FALSE, text |-> <<>>]

(***************************************************************************)
(* Spec: extractExifData as a state machine.  Two calls on the same file,  *)
(* answered alike by the browser and the decoder, run side by side; each   *)
(* has its own closure and its own promise.  The state after construction  *)
(* is the one the promise executor leaves: fileInfo built, both reads      *)
(* started, nothing loaded.                                                *)
(***************************************************************************)
Runs ==
    {1, 2}

\* File names, sizes and types of the model.
SampleNames ==
    { <<"a", ".", "J", "P", "G">>, <<"p", "i", "c">> }

SampleSizes ==
    {0, 1536}

ImageJpeg ==
    <<"i", "m", "a", "g", "e", "/", "j", "p", "e", "g">>

SampleFiles ==
    {[name |-> n, size |-> z, type |-> ImageJpeg] : n \in SampleNames, z \in SampleSizes}

\* Natural dimensions an image of the model decodes to.
SampleDimensions ==
    { <<200, 100>>, <<480, 640>> }

ExifDateText ==
    <<"2", "0", "2", "5", ":", "0", "2", ":", "2", "5", " ",
      "1", "0", ":", "3", "0", ":", "0", "0">>

\* The tag maps the decoder answers with.  Tag names are whatever the file
\* carries (ExifReader.load merges EXIF, IPTC and XMP names into one object),
\* so a name may equal a key of fileInfo.
SampleTags ==
    { EmptyObject,
      [ImageWidth |-> Str(<<"1", "0", "0">>), ImageHeight |-> Str(<<"5", "0">>)],
      [ImageWidth |-> Str(<<"2", "0", "0", "p", "x">>), ImageHeight |-> Str(<<"p", "x">>)],
      [Make |-> Str(<<"C", "a", "n", "o", "n">>), Model |-> Undef,
       DateTime |-> Str(ExifDateText),
       ExposureTime |-> Str(<<"1", "/", "6", "0">>),
       FNumber |-> Str(<<"f", "/", "2", ".", "8">>),
       ISOSpeedRatings |-> IntNum(100),
       FocalLength |-> Str(<<"5", "0", " ", "m", "m">>)],
      [Make |-> Str(<<"C", "a", "n", "o", "n">>), DateTime |-> IntNum(2025),
       FNumber |-> Str(<<"2", ".", "8">>)],
      [DateTime |-> Str(<<"n", "o", "w">>),
       Orientation |-> List(<<Str(<<"t", "o", "p">>)>>),
       Thumbnail |-> Obj(<<"{", "}">>)],
      [GPSLatitude |-> IntNum(10), GPSLatitudeRef |-> Str(<<"S">>),
       GPSLongitude |-> Str(<<"2", "0", ".", "5">>), GPSLongitudeRef |-> Str(<<"E">>),
       GPSAltitude |-> Str(<<"h", "i", "g", "h">>)],
      [fileName |-> Str(<<"x">>), ImageWidth |-> IntNum(100)],
      [DateTime |-> Str(<<"2", "0", "2", "5", ":", "0", "0", ":", "0", "0", " ",
                          "2", "4", ":", "6", "0", ":", "6", "0">>)],
      [DateTime |-> Str(<<>>)],
      [GPSLatitude |-> IntNum(10), GPSLatitudeRef |-> Str(<<"S">>),
       GPSLongitude |-> IntNum(20), GPSLongitudeRef |-> Str(<<"E">>)],
      [GPSLatitude |-> Str(<<"1", "0", ".", "5">>), GPSLatitudeRef |-> Str(<<"N">>),
       GPSLongitude |-> Str(<<"2", "0", ".", "5">>), GPSLongitudeRef |-> Str(<<"W">>)],
      [GPSLatitude |-> IntNum(10), GPSLatitudeRef |-> Str(<<"N">>)],
      [Make |-> List(<<Str(<<"a">>)>>), DateTime |-> IntNum(2025)],
      [GPSLatitude |-> Str(<<"n", "o", "r", "t", "h">>), GPSLatitudeRef |-> Str(<<"N">>),
       GPSLongitude |-> IntNum(20), GPSLongitudeRef |-> Str(<<"E">>)] }

Locales ==
    {"comma", "at"}

\* What the data-URL read and the image decode answer.
ImageAnswers ==
    {[urlRead |-> "load", image |-> "load", width |-> wh[1], height |-> wh[2]] :
        wh \in SampleDimensions}
    \cup {[urlRead |-> "load", image |-> "error", width |-> 0, height |-> 0],
          [urlRead |-> "empty", image |-> "error", width |-> 0, height |-> 0],
          [urlRead |-> "error", image |-> "error", width |-> 0, height |-> 0]}

\* What the ArrayBuffer read and ExifReader.load answer.  The locale data
\* only shows in a formatted date.
TagAnswers ==
    UNION {{[read |-> "load", decode |-> "tags", tags |-> t, locale |-> l] :
               l \in {x \in Locales : x = "comma" \/ "DateTime" \in DOMAIN t}} :
           t \in SampleTags}
    \cup {[read |-> "load", decode |-> "throws", tags |-> EmptyObject, locale |-> "comma"],
          [read |-> "empty", decode |-> "throws", tags |-> EmptyObject, locale |-> "comma"],
          [read |-> "error", decode |-> "throws", tags |-> EmptyObject, locale |-> "comma"]}

Worlds ==
    {[urlRead |-> i.urlRead, image |-> i.image, width |-> i.width,
      height |-> i.height, read |-> t.read, decode |-> t.decode,
      tags |-> t.tags, locale |-> t.locale] : i \in ImageAnswers, t \in TagAnswers}

Pending ==
    [state |-> "pending", value |-> EmptyObject]

Init ==
    /\ imageFile \in SampleFiles
    /\ world \in Worlds
    /\ urlReader = [r \in Runs |-> "reading"]
    /\ img = [r \in Runs |-> "idle"]
    /\ reader = [r \in Runs |-> "reading"]
    /\ loadedImage = [r \in Runs |-> FALSE]
    /\ loadedExif = [r \in Runs |-> FALSE]
    /\ fileInfo = [r \in Runs |-> InitialFileInfo(imageFile)]
    /\ exifData = [r \in Runs |-> EmptyObject]
    /\ promise = [r \in Runs |-> Pending]
    /\ resolveCalls = [r \in Runs |-> 0]
    /\ FormatIdle
    /\ PromptIdle
    /\ AnalyzeIdle
    /\ UploadIdle

\* A promise settles once: later resolve() and reject() calls change nothing.
Settle(p, state, value) ==
    IF p.state = "pending" THEN [state |-> state, value |-> value] ELSE p

\* The guard of resolveWhenBothLoaded (line 113).
BothLoadedEither(li, le) ==
    li \/ le

BothLoaded(li, le) ==
    li /\ le

\* resolveWhenBothLoaded (lines 112-116) in run r, the closure holding the
\* flags li and le and the objects fi and ed.
resolveWhenBothLoaded(r, li, le, fi, ed) ==
    IF BothLoaded(li, le)
    THEN /\ promise' = [promise EXCEPT ![r] = Settle(@, "resolved", Spread(fi, ed))]
         /\ resolveCalls' = [resolveCalls EXCEPT ![r] = @ + 1]
    ELSE UNCHANGED <<promise, resolveCalls>>

\* urlReader.onload (lines 120-138): without a result the handler returns;
\* with one it sets the image's handlers and its src, and the decode starts.
UrlReaderOnload(r) ==
    /\ urlReader[r] = "reading"
    /\ world.urlRead \in {"load", "empty"}
    /\ urlReader' = [urlReader EXCEPT ![r] = "done"]
    /\ img' = [img EXCEPT ![r] = IF world.urlRead = "load" THEN "loading" ELSE @]
    /\ UNCHANGED <<imageFile, world, reader, loadedImage, loadedExif, fileInfo,
                   exifData, promise, resolveCalls, formatVars, analyzeVars, uploadVars,
                   promptVars>>

\* urlReader.onerror (lines 140-144).
UrlReaderOnerror(r) ==
    /\ urlReader[r] = "reading"
    /\ world.urlRead = "error"
    /\ urlReader' = [urlReader EXCEPT ![r] = "done"]
    /\ loadedImage' = [loadedImage EXCEPT ![r] = TRUE]
    /\ resolveWhenBothLoaded(r, TRUE, loadedExif[r], fileInfo[r], exifData[r])
    /\ UNCHANGED <<imageFile, world, img, reader, loadedExif, fileInfo, exifData,
                   formatVars, analyzeVars, uploadVars,
                   promptVars>>

\* img.onload (lines 123-129).
ImgOnload(r) ==
    /\ img[r] = "loading"
    /\ world.image = "load"
    /\ img' = [img EXCEPT ![r] = "done"]
    /\ fileInfo' = [fileInfo EXCEPT
                       ![r] = WithImageDimensions(@, world.width, world.height)]
    /\ loadedImage' = [loadedImage EXCEPT ![r] = TRUE]
    /\ resolveWhenBothLoaded(r, TRUE, loadedExif[r], fileInfo'[r], exifData[r])
    /\ UNCHANGED <<imageFile, world, urlReader, reader, loadedExif, exifData,
                   formatVars, analyzeVars, uploadVars,
                   promptVars>>

\* img.onerror (lines 131-135).
ImgOnerror(r) ==
    /\ img[r] = "loading"
    /\ world.image = "error"
    /\ img' = [img EXCEPT ![r] = "done"]
    /\ loadedImage' = [loadedImage EXCEPT ![r] = TRUE]
    /\ resolveWhenBothLoaded(r, TRUE, loadedExif[r], fileInfo[r], exifData[r])
    /\ UNCHANGED <<imageFile, world, urlReader, reader, loadedExif, fileInfo,
                   exifData, formatVars, analyzeVars, uploadVars,
                   promptVars>>

FailedToReadFile ==
    [message |-> Str(<<"F", "a", "i", "l", "e", "d", " ", "t", "o", " ",
                       "r", "e", "a", "d", " ", "f", "i", "l", "e">>)]

\* reader.onload (lines 150-261): without a result the promise is rejected
\* and the handler returns; else the tags are decoded and converted, and by
\* success or by exception loadedExif is set and resolveWhenBothLoaded runs.
ReaderOnload(r) ==
    /\ reader[r] = "reading"
    /\ world.read \in {"load", "empty"}
    /\ reader' = [reader EXCEPT ![r] = "done"]
    /\ IF world.read = "empty"
       THEN /\ promise' = [promise EXCEPT ![r] = Settle(@, "rejected", FailedToReadFile)]
            /\ UNCHANGED <<exifData, loadedExif, resolveCalls>>
       ELSE LET ed == IF world.decode = "throws" THEN exifData[r]
                      ELSE ProcessTags(world.tags, fileInfo[r], world.locale).data
            IN  /\ exifData' = [exifData EXCEPT ![r] = ed]
                /\ loadedExif' = [loadedExif EXCEPT ![r] = TRUE]
                /\ resolveWhenBothLoaded(r, loadedImage[r], TRUE, fileInfo[r], ed)
    /\ UNCHANGED <<imageFile, world, urlReader, img, loadedImage, fileInfo,
                   formatVars, analyzeVars, uploadVars,
                   promptVars>>

\* reader.onerror (lines 263-267).
ReaderOnerror(r) ==
    /\ reader[r] = "reading"
    /\ world.read = "error"
    /\ reader' = [reader EXCEPT ![r] = "done"]
    /\ loadedExif' = [loadedExif EXCEPT ![r] = TRUE]
    /\ resolveWhenBothLoaded(r, loadedImage[r], TRUE, fileInfo[r], exifData[r])
    /\ UNCHANGED <<imageFile, world, urlReader, img, loadedImage, fileInfo,
                   exifData, formatVars, analyzeVars, uploadVars,
                   promptVars>>

Next ==
    \E r \in Runs :
        \/ UrlReaderOnload(r)
        \/ UrlReaderOnerror(r)
        \/ ImgOnload(r)
        \/ ImgOnerror(r)
        \/ ReaderOnload(r)
        \/ ReaderOnerror(r)

Spec ==
    Init /\ [][Next]_vars

\* The browser fires the events it has pending: a started read ends with
\* load or error, an image given a src with load or error.  No callback
\* can fire twice, so a behaviour ends when none is left to fire.
\* Whether the promise settles does not depend on what the tags hold: the
\* decoder answers with no tags at all, or fails.
InitLive ==
    /\ Init
    /\ world.tags = EmptyObject

SpecLive ==
    InitLive /\ [][Next]_vars /\ WF_vars(Next)

(***************************************************************************)
(* Properties of extractExifData.                                          *)
(***************************************************************************)
\* No callback of the image path is still to come in run r.
ImageStepOver(r) ==
    urlReader[r] = "done" /\ img[r] # "loading"

\* No callback of the tag path is still to come in run r.
TagStepOver(r) ==
    reader[r] = "done"

Resolved(r) ==
    promise[r].state = "resolved"

ImageDecoded ==
    world.urlRead = "load" /\ world.image = "load"

FileAttributeKeys ==
    {"fileName", "fileSize", "fileSizeBytes", "fileType", "fileExtension"}

\* C1: extractExifData never raises: whatever the two file reads, the image
\* decode and the tag decoder answer (success, error, or a read without a
\* result), the promise is never rejected, and once every callback has fired
\* it has resolved with a record.
C1_NeverRaises ==
    \A r \in Runs :
        /\ promise[r].state # "rejected"
        /\ (ImageStepOver(r) /\ TagStepOver(r)) => Resolved(r)

\* C2: in the resolved record no key set from the file attributes or from a
\* successful image decode holds a tag-decoder value: the file attributes
\* are those of the file, and after a successful decode imageWidth,
\* imageHeight and aspectRatio are those of the decoded image, whichever of
\* the two steps completed first.
C2_TagsNeverOverwrite ==
    \A r \in Runs :
        Resolved(r) =>
            LET rec == promise[r].value
            IN  /\ \A key \in FileAttributeKeys :
                      Get(rec, key) = InitialFileInfo(imageFile)[key]
                /\ ImageDecoded =>
                      /\ Get(rec, "imageWidth") = IntNum(world.width)
                      /\ Get(rec, "imageHeight") = IntNum(world.height)
                      /\ Get(rec, "aspectRatio")
                            = Str(aspectRatio(world.width, world.height))

\* C3: the promise resolves only after both the image step and the tag step
\* are over, never while one of them still has a callback to come, and
\* resolve() is called at most once.
C3_ResolvesAfterBoth ==
    \A r \in Runs :
        /\ Resolved(r) => (ImageStepOver(r) /\ TagStepOver(r))
        /\ resolveCalls[r] <= 1
        /\ resolveCalls[r] = 1 <=> Resolved(r)

\* C3 witness: one run has resolved after both of its steps, while the other
\* run, with only its image step over, is still pending.
C3_Witness ==
    /\ Resolved(1) /\ resolveCalls[1] = 1
    /\ loadedImage[2] /\ ~loadedExif[2] /\ ~TagStepOver(2)
    /\ promise[2].state = "pending"

\* C4: two runs on the same file with the same image-decode and tag-decoder
\* answers resolve with field-for-field identical records, in whatever order
\* the callbacks of each run fire.
C4_Idempotent ==
    (Resolved(1) /\ Resolved(2)) => promise[1].value = promise[2].value

\* C5: every record the promise resolves with holds fileName, fileSize,
\* fileSizeBytes, fileType and fileExtension as computed from the input
\* file, whether the image decode and the tag decode succeeded or failed.
C5_FileAttributesKept ==
    \A r \in Runs :
        Resolved(r) =>
            \A key \in FileAttributeKeys :
                /\ key \in DOMAIN promise[r].value
                /\ promise[r].value[key] = InitialFileInfo(imageFile)[key]

(***************************************************************************)
(* SpecFormat: formatFileSize applied to one byte count.                   *)
(***************************************************************************)
\* Byte counts 0..SmallBytes, and those within NearBoundary of a power of k.
SmallBytes ==
    40

NearBoundary ==
    6

SampleBytes ==
    (0..SmallBytes)
    \cup UNION {((Pow(k, e) - NearBoundary)..(Pow(k, e) + NearBoundary)) : e \in 1..3}
    \cup {1152, 1536, 5 * 1024 * 1024 + 1, 20 * 1024 * 1024, 20 * 1024 * 1024 + 1}

InitFormat ==
    /\ bytes \in SampleBytes
    /\ formatted = [done |-> FALSE, text |-> <<>>]
    /\ ExifIdle
    /\ AnalyzeIdle
    /\ UploadIdle
    /\ PromptIdle

FormatFileSizeCall ==
    /\ ~formatted.done
    /\ formatted' = [done |-> TRUE, text |-> formatFileSize(bytes)]
    /\ UNCHANGED <<bytes, exifVars, analyzeVars, uploadVars, promptVars>>

NextFormat ==
    FormatFileSizeCall

SpecFormat ==
    InitFormat /\ [][NextFormat]_vars

\* The text before the first blank, and the text after it.
RECURSIVE UpToBlank(_)
UpToBlank(cs) ==
    IF cs = <<>> \/ cs[1] = " " THEN <<>>
    ELSE <<cs[1]>> \o UpToBlank(Tail(cs))

AfterBlank(cs) ==
    Drop(cs, Len(UpToBlank(cs)) + 1)

\* A number of at most two decimals, as a count of hundredths.
Hundredths(v) ==
    v.m * Pow(10, 2 - v.d)

InDisplayRange(h) ==
    100 <= h /\ h < 102400

\* C6: for every byte size b > 0 formatFileSize yields "<value> <unit>" with
\* unit one of Bytes/KB/MB/GB, the value being b scaled by 1024^i and rounded
\* to two decimals, lying in [1.00, 1024.00), and the unit the smallest for
\* which this holds; b = 0 yields exactly "0 Bytes".
C6_FormatFileSizeRange ==
    formatted.done =>
        IF bytes = 0
        THEN formatted.text = <<"0", " ", "B", "y", "t", "e", "s">>
        ELSE LET value == parseFloat(UpToBlank(formatted.text))
                 unit == AfterBlank(formatted.text)
             IN  \E j \in 1..Len(sizes) :
                    /\ unit = sizes[j]
                    /\ value.t = "num" /\ value.d <= 2
                    /\ Hundredths(value) = ScaledHundredths(bytes, j - 1)
                    /\ InDisplayRange(Hundredths(value))
                    /\ \A j2 \in 1..(j - 1) :
                          ~InDisplayRange(ScaledHundredths(bytes, j2 - 1))

(***************************************************************************)
(* analyzeImageWithGemini (geminiService.ts 102-221): the pure parts.      *)
(*                                                                         *)
(* A reply of the hosted model is a sequence of tokens, each standing for  *)
(* the characters it is written with:                                      *)
(*   fence   three backquotes          nl      a line break                *)
(*   word    a run of letters (w)      lbrace, rbrace, comma               *)
(*   member  "name": value             atom    a JSON value by itself      *)
(* The fence patterns and JSON.parse read the tokens; substring reads the  *)
(* characters.                                                             *)
(***************************************************************************)
MAX_FILE_SIZE ==
    20 * 1024 * 1024

Token(kind, w, name, val) ==
    [k |-> kind, w |-> w, name |-> name, val |-> val]

Fence ==
    Token("fence", <<>>, "", Null)

Nl ==
    Token("nl", <<>>, "", Null)

Word(w) ==
    Token("word", w, "", Null)

LBrace ==
    Token("lbrace", <<>>, "", Null)

RBrace ==
    Token("rbrace", <<>>, "", Null)

Comma ==
    Token("comma", <<>>, "", Null)

Member(name, val) ==
    Token("member", <<>>, name, val)

Atom(val) ==
    Token("atom", <<>>, "", val)

\* The characters of a field name.
NameChars(name) ==
    CASE name = "description" -> <<"d", "e", "s", "c", "r", "i", "p", "t", "i", "o", "n">>
      [] name = "tags" -> <<"t", "a", "g", "s">>
      [] name = "hashtags" -> <<"h", "a", "s", "h", "t", "a", "g", "s">>
      [] name = "enhancementSuggestions" ->
           <<"e", "n", "h", "a", "n", "c", "e", "m", "e", "n", "t",
             "S", "u", "g", "g", "e", "s", "t", "i", "o", "n", "s">>
      [] OTHER -> <<"x">>

\* The JSON text of a value (the elements of a list are texts or objects).
JsonElement(v) ==
    IF v.t = "str" THEN <<"\"">> \o v.s \o <<"\"">> ELSE v.s

JsonText(v) ==
    CASE v.t = "str" -> <<"\"">> \o v.s \o <<"\"">>
      [] v.t = "num" -> NumberToString(v)
      [] v.t = "list" ->
           <<"[">> \o JoinTexts([i \in 1..Len(v.l) |-> JsonElement(v.l[i])], <<",">>)
           \o <<"]">>
      [] v.t = "obj" -> v.s
      [] OTHER -> <<"n", "u", "l", "l">>

\* The backquote character (a TLA+ string cannot hold it).
BackQuote ==
    "BACKQUOTE"

TokenChars(tok) ==
    CASE tok.k = "fence" -> <<BackQuote, BackQuote, BackQuote>>
      [] tok.k = "nl" -> <<"\n">>
      [] tok.k = "word" -> tok.w
      [] tok.k = "lbrace" -> <<"{">>
      [] tok.k = "rbrace" -> <<"}">>
      [] tok.k = "comma" -> <<",">>
      [] tok.k = "member" ->
           <<"\"">> \o NameChars(tok.name) \o <<"\"", ":">> \o JsonText(tok.val)
      [] OTHER -> JsonText(tok.val)

RECURSIVE TextChars(_)
TextChars(text) ==
    IF text = <<>> THEN <<>> ELSE TokenChars(text[1]) \o TextChars(Tail(text))

\* text.substring(0, n)
substringUnbounded(cs, n) ==
    cs

substring(cs, n) ==
    SubSeq(cs, 1, IF Len(cs) < n THEN Len(cs) ELSE n)

\* The two fence patterns of lines 177-178: an opening fence, with the tag
\* json or with none, then a line break; the interior; a line break and a
\* closing fence.
JsonWord ==
    Word(<<"j", "s", "o", "n">>)

OpensAt(text, i, tagged) ==
    IF tagged
    THEN i + 2 <= Len(text) /\ text[i] = Fence /\ text[i + 1] = JsonWord
         /\ text[i + 2] = Nl
    ELSE i + 1 <= Len(text) /\ text[i] = Fence /\ text[i + 1] = Nl

ClosesAt(text, j) ==
    j + 1 <= Len(text) /\ text[j] = Nl /\ text[j + 1] = Fence

\* text.match(pattern): the leftmost opening that some closing follows, and
\* the nearest such closing (the interior is matched lazily); group is the
\* interior.
Match(text, tagged) ==
    LET skip == IF tagged THEN 3 ELSE 2
        starts == {i \in 1..Len(text) :
                      /\ OpensAt(text, i, tagged)
                      /\ \E j \in (i + skip)..Len(text) : ClosesAt(text, j)}
    IN  IF starts = {} THEN [found |-> FALSE, group |-> <<>>]
        ELSE LET i == CHOOSE x \in starts : \A y \in starts : x <= y
                 ends == {j \in (i + skip)..Len(text) : ClosesAt(text, j)}
                 j == CHOOSE x \in ends : \A y \in ends : x <= y
             IN  [found |-> TRUE, group |-> SubSeq(text, i + skip, j - 1)]

jsonMatchTaggedOnly(text) ==
    IF Match(text, TRUE).found THEN Match(text, TRUE)
    ELSE [found |-> FALSE, group |-> text]

\* text.match(/```json\n([\s\S]*?)\n```/) || text.match(/```\n([\s\S]*?)\n```/)
\* || [null, text]
jsonMatch(text) ==
    IF Match(text, TRUE).found THEN Match(text, TRUE)
    ELSE IF Match(text, FALSE).found THEN Match(text, FALSE)
    ELSE [found |-> FALSE, group |-> text]

\* jsonMatch[1] || text
jsonText(text) ==
    IF jsonMatch(text).group # <<>> THEN jsonMatch(text).group ELSE text

\* JSON.parse on tokens: line breaks are white space; the text is one atom,
\* or an object: a left brace, members separated by commas, a right brace
\* (a repeated name keeps its last value).  Everything else is a SyntaxError.
RECURSIVE WithoutNl(_)
WithoutNl(text) ==
    IF text = <<>> THEN <<>>
    ELSE IF text[1] = Nl THEN WithoutNl(Tail(text))
    ELSE <<text[1]>> \o WithoutNl(Tail(text))

RECURSIVE MembersObject(_)
MembersObject(ts) ==
    IF ts = <<>> THEN EmptyObject
    ELSE LET last == ts[Len(ts)]
         IN  Put(MembersObject(SubSeq(ts, 1, Len(ts) - 2)), last.name, last.val)

IsMemberList(ts) ==
    \/ ts = <<>>
    \/ /\ Len(ts) % 2 = 1
       /\ \A i \in 1..Len(ts) :
             IF i % 2 = 1 THEN ts[i].k = "member" ELSE ts[i] = Comma

SyntaxError ==
    [ok |-> FALSE, isObject |-> FALSE, atom |-> Null, object |-> EmptyObject]

JSONparse(text) ==
    LET ts == WithoutNl(text)
        inner == SubSeq(ts, 2, Len(ts) - 1)
    IN  IF Len(ts) = 1 /\ ts[1].k = "atom"
        THEN [ok |-> TRUE, isObject |-> FALSE, atom |-> ts[1].val,
              object |-> EmptyObject]
        ELSE IF /\ Len(ts) >= 2
                /\ ts[1] = LBrace
                /\ ts[Len(ts)] = RBrace
                /\ IsMemberList(inner)
        THEN [ok |-> TRUE, isObject |-> TRUE, atom |-> Null,
              object |-> MembersObject(inner)]
        ELSE SyntaxError

\* a ?? b
IsNullishOrFalsy(v) ==
    ~Truthy(v)

IsNullish(v) ==
    v.t \in {"null", "undef"}

Coalesce(a, b) ==
    IF IsNullish(a) THEN b ELSE a

NoDescriptionAvailable ==
    Str(<<"N", "o", " ", "d", "e", "s", "c", "r", "i", "p", "t", "i",
          "o", "n", " ", "a", "v", "a", "i", "l", "a", "b", "l", "e">>)

\* Lines 183-188, the result read off the parsed value; a property of a
\* value that is no object reads as undefined.
ParsedResult(parsed) ==
    LET o == IF parsed.isObject THEN parsed.object ELSE EmptyObject
    IN  [description |-> Coalesce(Get(o, "description"), NoDescriptionAvailable),
         tags |-> Coalesce(Get(o, "tags"), List(<<>>)),
         hashtags |-> Coalesce(Get(o, "hashtags"), List(<<>>)),
         enhancementSuggestions |->
             Coalesce(Get(o, "enhancementSuggestions"), List(<<>>))]

\* Lines 192-197, the result when parsing failed.
FallbackResult(text) ==
    [description |-> Str(substring(TextChars(text), 200) \o <<".", ".", ".">>),
     tags |-> List(<<>>),
     hashtags |-> List(<<>>),
     enhancementSuggestions |-> List(<<>>)]

\* Lines 176-188 throw: JSON.parse on a text that is no JSON (line 181),
\* and reading a property of null (line 184).
TryBlockThrows(text) ==
    LET parsed == JSONparse(jsonText(text))
    IN  ~parsed.ok \/ (~parsed.isObject /\ parsed.atom.t = "null")

\* Lines 175-198: what the try block throws lands in the catch of line 189.
ParseReply(text) ==
    IF ~TryBlockThrows(text)
    THEN ParsedResult(JSONparse(jsonText(text)))
    ELSE FallbackResult(text)

\* The size check of line 109.
ExceedsLimitInclusive(size) ==
    size >= MAX_FILE_SIZE

ExceedsLimitInKilobytes(size) ==
    size \div 1024 > MAX_FILE_SIZE

ExceedsLimit(size) ==
    size > MAX_FILE_SIZE

\* FileTooLargeError (lines 12-21).
FileTooLargeError(fileSize) ==
    [name |-> "FileTooLargeError",
     message |->
         <<"I", "m", "a", "g", "e", " ", "f", "i", "l", "e", " ", "s",
               "i", "z", "e", " ", "(">>
         \o toFixed2(ScaledHundredths(fileSize, 2))
         \o <<" ", "M", "B", ")", " ", "e", "x", "c", "e", "e", "d", "s",
               " ", "t", "h", "e", " ", "2", "0", "M", "B", " ", "l", "i",
               "m", "i", "t", " ", "f", "o", "r", " ", "A", "I", " ", "a",
               "n", "a", "l", "y", "s", "i", "s", ".">>]

\* An error of the browser or of the hosted model's client.
OtherError(name) ==
    [name |-> name, message |-> <<>>]

(***************************************************************************)
(* SpecAnalyze: one call of analyzeImageWithGemini.  The call is           *)
(* suspended at two awaits: the file read of fileToGenerativePart and the  *)
(* reply of generateContent.  A reply is drawn when it arrives; service    *)
(* keeps how it was put together, next to its text.                        *)
(***************************************************************************)
AnalyzeSizes ==
    {0, 1536, MAX_FILE_SIZE - 1, MAX_FILE_SIZE, MAX_FILE_SIZE + 1,
     MAX_FILE_SIZE + 5243, 25 * 1024 * 1024 + 7}

AnalyzeFiles ==
    {[name |-> <<"a", ".", "J", "P", "G">>, size |-> z, type |-> ImageJpeg] :
        z \in AnalyzeSizes}

\* The values a reply gives the four fields; Undef stands for a field the
\* object does not have.
SampleDescriptions ==
    {Undef, Null, Str(<<"d">>), Str(<<>>), IntNum(7)}

SampleTagLists ==
    {Undef, Null, List(<<Str(<<"t">>)>>), Str(<<"t">>)}

SampleHashtagLists ==
    {Undef, List(<<Str(<<"#", "h">>)>>), List(<<Str(<<"h">>)>>),
     List(<<Str(<<"#", "b">>), Str(<<"#", "a">>)>>)}

SampleSuggestionLists ==
    {Undef, List(<<>>),
     List(<<Obj(<<"{", "\"", "t", "i", "t", "l", "e", "\"", ":", "\"", "T", "\"", "}">>)>>)}

FieldNames ==
    <<"description", "tags", "hashtags", "enhancementSuggestions">>

SampleObjects ==
    {[description |-> a, tags |-> b, hashtags |-> c, enhancementSuggestions |-> d] :
        a \in SampleDescriptions, b \in SampleTagLists,
        c \in SampleHashtagLists, d \in SampleSuggestionLists}

RECURSIVE Repeat(_, _)
Repeat(cs, n) ==
    IF n = 0 THEN <<>> ELSE cs \o Repeat(cs, n - 1)

\* How many times the long prose repeats its seven characters.
ProseRepeats ==
    30

HelloWord ==
    Word(<<"H", "e", "l", "l", "o">>)

LongProse ==
    Word(Repeat(<<"t", "h", "o", "u", "g", "h", "t">>, ProseRepeats))

NoFields ==
    [description |-> Undef, tags |-> Undef, hashtags |-> Undef,
     enhancementSuggestions |-> Undef]

\* The bodies of a reply: an object, another JSON value, prose, or nothing.
SampleBodies ==
    {[kind |-> "object", fields |-> o, atom |-> Null] : o \in SampleObjects}
    \cup {[kind |-> "atom", fields |-> NoFields, atom |-> v] :
             v \in {Null, IntNum(5), Str(<<"s">>), List(<<Str(<<"t">>)>>)}}
    \cup {[kind |-> kd, fields |-> NoFields, atom |-> Null] :
             kd \in {"prose", "longprose", "empty"}}

\* The members of an object, one to a line.
RECURSIVE MemberLines(_, _)
MemberLines(fields, i) ==
    IF i > Len(FieldNames) THEN <<>>
    ELSE LET rest == MemberLines(fields, i + 1)
             name == FieldNames[i]
         IN  IF fields[name].t = "undef" THEN rest
             ELSE <<Member(name, fields[name])>>
                  \o (IF rest = <<>> THEN <<>> ELSE <<Comma, Nl>> \o rest)

BodyText(body) ==
    CASE body.kind = "object" ->
           <<LBrace, Nl>> \o MemberLines(body.fields, 1) \o <<Nl, RBrace>>
      [] body.kind = "atom" -> <<Atom(body.atom)>>
      [] body.kind = "prose" -> <<HelloWord>>
      [] body.kind = "longprose" -> <<HelloWord, Nl, LongProse>>
      [] OTHER -> <<>>

\* A reply: prose or nothing before, an opening fence (tagged json, bare,
\* tagged otherwise) or none, the body, a closing fence or none, prose or
\* nothing after.
SampleReplies ==
    {[prefix |-> p, open |-> o, closed |-> c, body |-> b, suffix |-> x] :
        p \in {<<>>, <<HelloWord, Nl>>},
        o \in {"none", "json", "bare", "other"},
        c \in BOOLEAN,
        b \in SampleBodies,
        x \in {<<>>, <<Nl, HelloWord>>}}

WellFormedReply(reply) ==
    reply.open = "none" => ~reply.closed

ReplyText(reply) ==
    reply.prefix
    \o (CASE reply.open = "json" -> <<Fence, JsonWord, Nl>>
          [] reply.open = "bare" -> <<Fence, Nl>>
          [] reply.open = "other" -> <<Fence, Word(<<"j", "s">>), Nl>>
          [] OTHER -> <<>>)
    \o BodyText(reply.body)
    \o (IF reply.closed THEN <<Nl, Fence>> ELSE <<>>)
    \o reply.suffix

NoReply ==
    [prefix |-> <<>>, open |-> "none", closed |-> FALSE,
     body |-> [kind |-> "empty", fields |-> NoFields, atom |-> Null],
     suffix |-> <<>>]

NoResult ==
    [description |-> Undef, tags |-> Undef, hashtags |-> Undef,
     enhancementSuggestions |-> Undef]

NoError ==
    [name |-> "", message |-> <<>>]

Returned(analysis) ==
    [kind |-> "returned", error |-> NoError, result |-> analysis]

Threw(error) ==
    [kind |-> "threw", error |-> error, result |-> NoResult]

\* The catch of lines 189-198 returns the fallback result.
OnParseErrorRethrows(text) ==
    Threw(OtherError("SyntaxError"))

OnParseError(text) ==
    Returned(FallbackResult(text))

\* Lines 175-198 as the call's outcome.
ParseOutcome(text) ==
    IF TryBlockThrows(text) THEN OnParseError(text)
    ELSE Returned(ParseReply(text))

InitAnalyze ==
    /\ imageFile \in AnalyzeFiles
    /\ service = [arrived |-> FALSE, reply |-> NoReply, text |-> <<>>]
    /\ pc = "start"
    /\ encodeCalls = 0
    /\ generateCalls = 0
    /\ outcome = [kind |-> "pending", error |-> NoError, result |-> NoResult]
    /\ world = <<>>
    /\ urlReader = <<>>
    /\ img = <<>>
    /\ reader = <<>>
    /\ loadedImage = <<>>
    /\ loadedExif = <<>>
    /\ fileInfo = <<>>
    /\ exifData = <<>>
    /\ promise = <<>>
    /\ resolveCalls = <<>>
    /\ FormatIdle
    /\ PromptIdle
    /\ UploadIdle

\* The call up to its first await (lines 107-114): a file over the limit
\* throws FileTooLargeError, which the catch of line 199 throws on; else
\* fileToGenerativePart starts reading the file.
AnalyzeCall ==
    /\ pc = "start"
    /\ IF ExceedsLimit(imageFile.size)
       THEN /\ outcome' = Threw(FileTooLargeError(imageFile.size))
            /\ pc' = "done"
            /\ UNCHANGED encodeCalls
       ELSE /\ encodeCalls' = encodeCalls + 1
            /\ pc' = "encoding"
            /\ UNCHANGED outcome
    /\ UNCHANGED <<service, generateCalls, exifVars, formatVars, promptVars, uploadVars>>

\* reader.onloadend with a result (lines 211, 217): the part is built, the
\* prompt composed and generateContent called (lines 117-170).
EncodeLoaded ==
    /\ pc = "encoding"
    /\ generateCalls' = generateCalls + 1
    /\ pc' = "generating"
    /\ UNCHANGED <<service, encodeCalls, outcome, exifVars, formatVars, promptVars, uploadVars>>

\* reader.onloadend after a failed read: reader.result is null and split
\* throws (line 217); the catch of line 199 throws the error on.
EncodeFailed ==
    /\ pc = "encoding"
    /\ outcome' = Threw(OtherError("TypeError"))
    /\ pc' = "done"
    /\ UNCHANGED <<service, encodeCalls, generateCalls, exifVars, formatVars, promptVars, uploadVars>>

\* generateContent or response.text() throws (lines 170-172).
GenerateFailed ==
    /\ pc = "generating"
    /\ outcome' = Threw(OtherError("Error"))
    /\ pc' = "done"
    /\ UNCHANGED <<service, encodeCalls, generateCalls, exifVars, formatVars, promptVars, uploadVars>>

\* The reply arrives and is parsed (lines 172-198).
GenerateReplied ==
    /\ pc = "generating"
    /\ \E reply \in SampleReplies :
          /\ WellFormedReply(reply)
          /\ service' = [arrived |-> TRUE, reply |-> reply, text |-> ReplyText(reply)]
          /\ outcome' = ParseOutcome(ReplyText(reply))
    /\ pc' = "done"
    /\ UNCHANGED <<encodeCalls, generateCalls, exifVars, formatVars, promptVars, uploadVars>>

NextAnalyze ==
    \/ AnalyzeCall
    \/ EncodeLoaded
    \/ EncodeFailed
    \/ GenerateFailed
    \/ GenerateReplied

SpecAnalyze ==
    InitAnalyze /\ [][NextAnalyze]_vars

(***************************************************************************)
(* Properties of analyzeImageWithGemini.                                   *)
(***************************************************************************)
\* The size a FileTooLargeError message reports: the text between
\* "Image file size (" and " MB".
ReportedSize(message) ==
    UpToBlank(Drop(message, 17))

\* text is digits, a point and two digits, and is the hundredth of a
\* megabyte nearest to size bytes (|h / 100 - size / 2^20| <= 1 / 200).
ReportsMegabytes(text, size) ==
    /\ Len(text) >= 4
    /\ text[Len(text) - 2] = "."
    /\ AllDigits(SubSeq(text, 1, Len(text) - 3))
    /\ AllDigits(SubSeq(text, Len(text) - 1, Len(text)))
    /\ LET h == DigitsVal(SubSeq(text, 1, Len(text) - 3)) * 100
                + DigitsVal(SubSeq(text, Len(text) - 1, Len(text)))
           diff == h * 262144 - size * 25
       IN  diff <= 131072 /\ 0 - diff <= 131072

\* C7: a file of exactly 20 * 1024 * 1024 bytes (or less) does not raise the
\* size-limit failure; every larger file raises FileTooLargeError, whose
\* message reports the size in MB with two decimals: 20.00 for one byte over.
C7_SizeLimitBoundary ==
    pc = "done" =>
        IF imageFile.size <= 20 * 1024 * 1024
        THEN outcome.error.name # "FileTooLargeError"
        ELSE /\ outcome.kind = "threw"
             /\ outcome.error.name = "FileTooLargeError"
             /\ ReportsMegabytes(ReportedSize(outcome.error.message), imageFile.size)
             /\ imageFile.size = 20 * 1024 * 1024 + 1 =>
                   ReportedSize(outcome.error.message) = <<"2", "0", ".", "0", "0">>

\* C7 witness: the call on a file one byte over the limit has thrown.
C7_Witness ==
    /\ pc = "done"
    /\ imageFile.size = 20 * 1024 * 1024 + 1
    /\ outcome.error.name = "FileTooLargeError"

\* C8: for a file over the 20 MB ceiling the call fails at once: the image
\* is never encoded and generateContent never called, before or after the
\* size-limit failure is raised.
C8_NoCallWhenOversize ==
    imageFile.size > 20 * 1024 * 1024 =>
        /\ encodeCalls = 0
        /\ generateCalls = 0
        /\ pc \in {"start", "done"}
        /\ pc = "done" => outcome.error.name = "FileTooLargeError"

\* C8 witness: the call on an oversize file is over, with nothing encoded
\* and nothing sent.
C8_Witness ==
    /\ pc = "done"
    /\ imageFile.size = 20 * 1024 * 1024 + 5243
    /\ outcome.kind = "threw"
    /\ encodeCalls = 0
    /\ generateCalls = 0

Replied ==
    pc = "done" /\ service.arrived

ReplyFields ==
    service.reply.body.fields

\* The reply carries a fenced block the code looks for: opened by a fence
\* tagged json or by a bare fence, and closed.
HasJsonOrBareBlock ==
    service.reply.open \in {"json", "bare"} /\ service.reply.closed

\* The reply carries a fenced block, whatever its tag.
HasFencedBlock ==
    service.reply.open \in {"json", "bare", "other"} /\ service.reply.closed

\* The reply is nothing but its body.
IsBare ==
    /\ service.reply.open = "none"
    /\ service.reply.prefix = <<>>
    /\ service.reply.suffix = <<>>

\* The text handed to JSON.parse is a JSON object.
ParsesAsObject ==
    service.reply.body.kind = "object" /\ (HasJsonOrBareBlock \/ IsBare)

EmptyValue(name) ==
    IF name = "description" THEN Str(<<>>) ELSE List(<<>>)

DefaultValue(name) ==
    IF name = "description" THEN NoDescriptionAvailable ELSE List(<<>>)

FieldNameSet ==
    {FieldNames[i] : i \in 1..Len(FieldNames)}

\* C9 as claimed: when the reply parses as a JSON object, each absent field
\* defaults to an empty value (the empty string for description, the empty
\* list for the three lists), present fields are returned as given, and
\* nothing is raised.  (A field given as null is left open: it counts
\* neither as absent nor as present.)
C9_DefaultsToEmpty ==
    (Replied /\ ParsesAsObject) =>
        /\ outcome.kind = "returned"
        /\ \A name \in FieldNameSet :
              \/ ReplyFields[name].t = "null"
              \/ outcome.result[name] =
                     IF ReplyFields[name].t = "undef" THEN EmptyValue(name)
                     ELSE ReplyFields[name]

\* C9 amended: when the reply parses as a JSON object, an absent or null
\* description defaults to the text "No description available", absent or
\* null tags, hashtags and enhancementSuggestions default to the empty list,
\* every other field is returned as given, and nothing is raised.
C9_DefaultsAmended ==
    (Replied /\ ParsesAsObject) =>
        /\ outcome.kind = "returned"
        /\ \A name \in FieldNameSet :
              outcome.result[name] =
                  IF ReplyFields[name].t \in {"undef", "null"} THEN DefaultValue(name)
                  ELSE ReplyFields[name]
        /\ Len(NoDescriptionAvailable.s) = 24

\* C9 witness: a reply whose object has hashtags and an empty description
\* but neither tags nor suggestions was parsed.
C9_Witness ==
    /\ Replied /\ ParsesAsObject
    /\ ReplyFields.description = Str(<<>>)
    /\ ReplyFields.tags = Undef
    /\ ReplyFields.hashtags = List(<<Str(<<"#", "h">>)>>)
    /\ outcome.result.description = Str(<<>>)
    /\ outcome.result.tags = List(<<>>)
    /\ outcome.result.hashtags = List(<<Str(<<"#", "h">>)>>)

\* The result the object of the reply stands for, field by field.
ResultOfFields(fields) ==
    [name \in FieldNameSet |->
        IF fields[name].t \in {"undef", "null"} THEN DefaultValue(name)
        ELSE fields[name]]

\* The result of parsing the entire reply as JSON: that of its object or
\* atom when the reply is nothing else, the fallback of line 192 when it
\* is no JSON.
ResultOfEntireReply ==
    IF IsBare /\ service.reply.body.kind = "object"
    THEN ResultOfFields(ReplyFields)
    ELSE IF IsBare /\ service.reply.body.kind = "atom"
            /\ service.reply.body.atom.t # "null"
    THEN ResultOfFields(NoFields)
    ELSE FallbackResult(service.text)

SameResult(analysis, expected) ==
    \A name \in FieldNameSet : analysis[name] = expected[name]

\* C10 as claimed: when the reply contains a fenced code block, with or
\* without a language tag, its interior is parsed as JSON and the result's
\* four fields are the values of that JSON object; when there is no fenced
\* block, the entire reply is parsed as JSON instead.
C10_AnyFencedBlock ==
    Replied =>
        /\ outcome.kind = "returned"
        /\ (HasFencedBlock /\ service.reply.body.kind = "object") =>
              SameResult(outcome.result, ResultOfFields(ReplyFields))
        /\ ~HasFencedBlock => SameResult(outcome.result, ResultOfEntireReply)

\* C10 amended: when the reply contains a fenced block opened by a fence
\* tagged json or by a bare fence, its interior is parsed as JSON and the
\* result's four fields are the values of that JSON object; when there is no
\* such block (no fence, a fence with another tag, or none closing it), the
\* entire reply is parsed as JSON instead.
C10_JsonOrBareBlock ==
    Replied =>
        /\ outcome.kind = "returned"
        /\ (HasJsonOrBareBlock /\ service.reply.body.kind = "object") =>
              SameResult(outcome.result, ResultOfFields(ReplyFields))
        /\ ~HasJsonOrBareBlock => SameResult(outcome.result, ResultOfEntireReply)

\* C10 witness: the reply was prose around a block tagged json holding
\* {"description":"d","tags":["t"],"hashtags":["#h"],"enhancementSuggestions":[]}
\* and the result has exactly these values.
C10_Witness ==
    /\ Replied
    /\ service.reply.open = "json" /\ service.reply.closed
    /\ service.reply.prefix # <<>>
    /\ outcome.result = [description |-> Str(<<"d">>),
                         tags |-> List(<<Str(<<"t">>)>>),
                         hashtags |-> List(<<Str(<<"#", "h">>)>>),
                         enhancementSuggestions |-> List(<<>>)]

\* Neither a fenced block nor the whole reply is JSON: the body is no JSON
\* value, or it stands neither in a closed fenced block nor alone.
NothingParses ==
    ~(/\ service.reply.body.kind \in {"object", "atom"}
      /\ (HasFencedBlock \/ IsBare))

Ellipsis ==
    <<".", ".", ".">>

\* C11: when neither a fenced block nor the whole reply parses as JSON, the
\* call returns (does not throw) a result whose description is the first
\* 200 characters of the raw reply followed by "..." and whose tags,
\* hashtags and enhancementSuggestions are empty lists.
C11_FallbackOnUnparsable ==
    (Replied /\ NothingParses) =>
        LET cs == TextChars(service.text)
            n == IF Len(cs) < 200 THEN Len(cs) ELSE 200
            d == outcome.result.description
        IN  /\ outcome.kind = "returned"
            /\ d.t = "str"
            /\ Len(d.s) = n + 3
            /\ SubSeq(d.s, 1, n) = SubSeq(cs, 1, n)
            /\ SubSeq(d.s, n + 1, n + 3) = Ellipsis
            /\ outcome.result.tags = List(<<>>)
            /\ outcome.result.hashtags = List(<<>>)
            /\ outcome.result.enhancementSuggestions = List(<<>>)

\* C11 witness: a reply of prose longer than 200 characters came back as a
\* description of 203 characters.
C11_Witness ==
    /\ Replied /\ NothingParses
    /\ service.reply.body.kind = "longprose"
    /\ Len(TextChars(service.text)) > 200
    /\ Len(outcome.result.description.s) = 203

\* C12: once the reply has arrived the call returns a result with the four
\* fields and never throws, whatever the reply: prose, malformed JSON, or
\* JSON that is no object (null, a number, a text, an array).
C12_ParserNeverThrows ==
    Replied =>
        /\ outcome.kind = "returned"
        /\ outcome.error = NoError
        /\ DOMAIN outcome.result = FieldNameSet
        /\ \A name \in FieldNameSet : outcome.result[name].t # "undef"

\* C12 witness: the reply was the JSON value null and nothing else, and the
\* call returned the fallback result.
C12_Witness ==
    /\ Replied /\ IsBare
    /\ service.reply.body.kind = "atom"
    /\ service.reply.body.atom = Null
    /\ outcome.kind = "returned"
    /\ outcome.result.description = Str(<<"n", "u", "l", "l", ".", ".", ".">>)

\* C17: every returned result has description as a text and tags, hashtags
\* and enhancementSuggestions as lists, also for JSON replies whose fields
\* have other types.
C17_DeclaredShapes ==
    outcome.kind = "returned" =>
        /\ outcome.result.description.t = "str"
        /\ outcome.result.tags.t = "list"
        /\ outcome.result.hashtags.t = "list"
        /\ outcome.result.enhancementSuggestions.t = "list"

(***************************************************************************)
(* Further properties of extractExifData.                                  *)
(***************************************************************************)
\* The tag decoder answered with tags, and they were converted.
TagsDecoded ==
    world.read = "load" /\ world.decode = "tags"

\* The decoder gave a DateTime tag whose description is a text.
HasTimestamp ==
    /\ TagsDecoded
    /\ "DateTime" \in DOMAIN world.tags
    /\ world.tags["DateTime"].t = "str"

\* C13: for a decoder timestamp matching YYYY:MM:DD HH:MM:SS the record's
\* dateTime is a non-empty formatted text and rawDateTime is the original
\* text; for a timestamp that does not match, dateTime is the original text
\* verbatim and rawDateTime holds the original too.
C13_TimestampNormalized ==
    \A r \in Runs :
        (Resolved(r) /\ HasTimestamp) =>
            LET rec == promise[r].value
                original == world.tags["DateTime"]
            IN  /\ Get(rec, "rawDateTime") = original
                /\ IF MatchesExifDate(original.s)
                   THEN /\ Get(rec, "dateTime").t = "str"
                        /\ Get(rec, "dateTime").s # <<>>
                        /\ Get(rec, "dateTime") # original
                   ELSE Get(rec, "dateTime") = original

\* C13 witness: "2025:02:25 10:30:00" was recorded as
\* "February 25, 2025, 10:30 AM", the original kept in rawDateTime.
C13_Witness ==
    /\ Resolved(1) /\ HasTimestamp
    /\ world.tags["DateTime"] = Str(ExifDateText)
    /\ world.locale = "comma"
    /\ promise[1].value["rawDateTime"] = Str(ExifDateText)
    /\ promise[1].value["dateTime"] =
          Str(<<"F", "e", "b", "r", "u", "a", "r", "y", " ", "2", "5", ",", " ",
                "2", "0", "2", "5", ",", " ", "1", "0", ":", "3", "0", " ", "A", "M">>)

GpsTags ==
    {"GPSLatitude", "GPSLatitudeRef", "GPSLongitude", "GPSLongitudeRef"}

\* C14: with latitude, longitude and both references given, the recorded
\* latitude is the decoder's magnitude when the latitude reference reads
\* "N" and its negation otherwise, the recorded longitude the magnitude
\* when the longitude reference reads "E" and its negation otherwise;
\* (10, "S") with (20, "E") gives (-10, 20).  Unless all four are given
\* neither is recorded.
C14_GpsSignRule ==
    \A r \in Runs :
        (Resolved(r) /\ TagsDecoded) =>
            LET rec == promise[r].value
                tags == world.tags
            IN  IF GpsTags \subseteq DOMAIN tags
                THEN LET lat == parseFloat(ToText(tags["GPSLatitude"]))
                         lng == parseFloat(ToText(tags["GPSLongitude"]))
                     IN  /\ Get(rec, "gpsLatitude") =
                               IF tags["GPSLatitudeRef"] = Str(<<"N">>) THEN lat
                               ELSE Num(0 - lat.m, lat.d)
                         /\ Get(rec, "gpsLongitude") =
                               IF tags["GPSLongitudeRef"] = Str(<<"E">>) THEN lng
                               ELSE Num(0 - lng.m, lng.d)
                         /\ (/\ tags["GPSLatitude"] = IntNum(10)
                             /\ tags["GPSLatitudeRef"] = Str(<<"S">>)
                             /\ tags["GPSLongitude"] = IntNum(20)
                             /\ tags["GPSLongitudeRef"] = Str(<<"E">>)) =>
                                (/\ Get(rec, "gpsLatitude") = IntNum(0 - 10)
                                 /\ Get(rec, "gpsLongitude") = IntNum(20))
                ELSE /\ "gpsLatitude" \notin DOMAIN rec
                     /\ "gpsLongitude" \notin DOMAIN rec

\* C14 witness: (10, "S") with (20, "E") was recorded as (-10, 20).
C14_Witness ==
    /\ Resolved(2) /\ TagsDecoded
    /\ GpsTags \subseteq DOMAIN world.tags
    /\ world.tags["GPSLatitude"] = IntNum(10)
    /\ world.tags["GPSLatitudeRef"] = Str(<<"S">>)
    /\ world.tags["GPSLongitude"] = IntNum(20)
    /\ world.tags["GPSLongitudeRef"] = Str(<<"E">>)
    /\ promise[2].value["gpsLatitude"] = IntNum(0 - 10)
    /\ promise[2].value["gpsLongitude"] = IntNum(20)

C19_EventuallySettles ==
    \A r \in Runs : <>(promise[r].state # "pending")

(***************************************************************************)
(* SpecUpload: handleImageUpload (ImageAnalyzer.tsx 134-213).  Every call  *)
(* has its own closure (file, exifData, aiAnalysis) and is suspended at    *)
(* the timer of line 157 and at the awaits of lines 160 and 175; calls     *)
(* made while earlier ones are suspended run side by side with them.  All  *)
(* calls write the same component state with functional updates, applied   *)
(* in the order they are made.  The two services answer as their own       *)
(* models say: extractExifData resolves with a record of the file or       *)
(* rejects, analyzeImageWithGemini throws FileTooLargeError for a file     *)
(* over the limit and otherwise returns a result or throws the error of    *)
(* the encoder or of the hosted model.                                     *)
(***************************************************************************)
\* How many calls of handleImageUpload a behaviour makes.
MaxUploads ==
    2

Uploads ==
    1..MaxUploads

TextPlain ==
    <<"t", "e", "x", "t", "/", "p", "l", "a", "i", "n">>

UploadFiles ==
    {[name |-> <<"a", ".", "J", "P", "G">>, size |-> 1536, type |-> ImageJpeg],
     [name |-> <<"p", "i", "c">>, size |-> MAX_FILE_SIZE + 1, type |-> ImageJpeg],
     [name |-> <<"n", ".", "t", "x", "t">>, size |-> 0, type |-> TextPlain]}

\* file.type.startsWith("image/")
startsWith(cs, prefix) ==
    Len(cs) >= Len(prefix) /\ SubSeq(cs, 1, Len(prefix)) = prefix

IsImage(file) ==
    startsWith(file.type, <<"i", "m", "a", "g", "e", "/">>)

\* URL.createObjectURL(file): a new URL at every call.
ObjectUrl(u) ==
    Str(<<"b", "l", "o", "b", ":">> \o NatChars(u))

PleaseUploadValid ==
    Str(
        <<"P", "l", "e", "a", "s", "e", " ", "u", "p", "l", "o", "a", "d",
          " ", "a", " ", "v", "a", "l", "i", "d", " ", "i", "m", "a", "g",
          "e", " ", "f", "i", "l", "e">>)

ErrorProcessingImage ==
    Str(
        <<"E", "r", "r", "o", "r", " ", "p", "r", "o", "c", "e", "s", "s",
          "i", "n", "g", " ", "i", "m", "a", "g", "e", ".", " ", "P", "l",
          "e", "a", "s", "e", " ", "t", "r", "y", " ", "a", "g", "a", "i",
          "n", ".">>)

FailedToAnalyze ==
    Str(
        <<"F", "a", "i", "l", "e", "d", " ", "t", "o", " ", "a", "n", "a",
          "l", "y", "z", "e", " ", "i", "m", "a", "g", "e", " ", "w", "i",
          "t", "h", " ", "A", "I", ".", " ", "P", "l", "e", "a", "s", "e",
          " ", "t", "r", "y", " ", "a", "g", "a", "i", "n", " ", "o", "r",
          " ", "t", "r", "y", " ", "a", " ", "d", "i", "f", "f", "e", "r",
          "e", "n", "t", " ", "i", "m", "a", "g", "e", ".">>)

\* The useState initial values (lines 109-122).
InitialResult ==
    [exifData |-> EmptyObject, aiAnalysis |-> Null, imageUrl |-> Str(<<>>),
     isLoading |-> FALSE, error |-> Null]

NotCalled ==
    [pc |-> "none", file |-> NoFile, exifData |-> EmptyObject,
     metadataInput |-> EmptyObject,
     outcome |-> [kind |-> "pending", error |-> NoError, result |-> NoResult],
     aiError |-> Null]

\* What extractExifData resolves with for a file: its file attributes, with
\* or without the dimensions of the decoded image.
MetadataRecords(file) ==
    {InitialFileInfo(file), WithImageDimensions(InitialFileInfo(file), 200, 100)}

\* A result the hosted model's reply gives for a file.
AnalysisOf(file) ==
    [description |-> Str(file.name), tags |-> List(<<Str(<<"t">>)>>),
     hashtags |-> List(<<Str(<<"#", "h">>)>>),
     enhancementSuggestions |-> List(<<>>)]

\* How analyzeImageWithGemini(file, ...) settles.
AnalyzeOutcomes(file) ==
    IF ExceedsLimit(file.size)
    THEN {Threw(FileTooLargeError(file.size))}
    ELSE {Threw(OtherError("TypeError")), Threw(OtherError("Error")),
          Returned(AnalysisOf(file))}

InitUpload ==
    /\ result = InitialResult
    /\ isExifLoading = FALSE
    /\ aiError = Null
    /\ uploads = [u \in Uploads |-> NotCalled]
    /\ ExifIdle
    /\ FormatIdle
    /\ PromptIdle
    /\ AnalyzeIdle

\* Lines 137-140: the update of result for a file that is no image.
OnInvalidFileClears(prev) ==
    [prev EXCEPT !.error = PleaseUploadValid, !.aiAnalysis = Null]

OnInvalidFile(prev) ==
    [prev EXCEPT !.error = PleaseUploadValid]

\* handleImageUpload(file) up to its return (lines 135-211): a file that is
\* no image sets the error and ends the call; an image sets the loading
\* states, clears the previous data and starts the timer.
HandleImageUpload(u) ==
    /\ uploads[u].pc = "none"
    /\ IF u = 1 THEN TRUE ELSE uploads[u - 1].pc # "none"
    /\ \E file \in UploadFiles :
          IF ~IsImage(file)
          THEN /\ result' = OnInvalidFile(result)
               /\ uploads' = [uploads EXCEPT ![u].pc = "refused", ![u].file = file]
               /\ UNCHANGED <<isExifLoading, aiError>>
          ELSE /\ isExifLoading' = TRUE
               /\ aiError' = Null
               /\ result' = [result EXCEPT !.isLoading = TRUE,
                                           !.error = Null,
                                           !.exifData = EmptyObject,
                                           !.aiAnalysis = Null,
                                           !.imageUrl = ObjectUrl(u)]
               /\ uploads' = [uploads EXCEPT ![u].pc = "timer", ![u].file = file]
    /\ UNCHANGED <<exifVars, formatVars, promptVars, analyzeVars>>

\* The timer fires (line 157) and extractExifData is called (line 160).
TimerFired(u) ==
    /\ uploads[u].pc = "timer"
    /\ uploads' = [uploads EXCEPT ![u].pc = "extracting"]
    /\ UNCHANGED <<result, isExifLoading, aiError, exifVars, formatVars, promptVars, analyzeVars>>

\* aiError instanceof FileTooLargeError (line 193).
instanceofAnyError(error) ==
    error.name # ""

instanceofFileTooLargeError(error) ==
    error.name = "FileTooLargeError"

\* Lines 193-199: the text shown for a failed analysis.
AiErrorText(error) ==
    IF instanceofFileTooLargeError(error) THEN Str(error.message)
    ELSE FailedToAnalyze

\* Lines 187-190: the update of result when the analysis failed.
OnAnalysisFailureClears(prev) ==
    [prev EXCEPT !.isLoading = FALSE, !.exifData = EmptyObject]

OnAnalysisFailureKeepsLoading(prev) ==
    prev

OnAnalysisFailure(prev) ==
    [prev EXCEPT !.isLoading = FALSE]

\* The third argument of analyzeImageWithGemini at line 175: the exifData
\* constant of line 160.
ExifDataArgumentEmpty(record) ==
    EmptyObject

ExifDataArgument(record) ==
    record

\* extractExifData resolves (lines 160-175): the record is stored and
\* analyzeImageWithGemini called with it.  For a file over the limit the
\* call throws before its first await, so the catch of lines 183-200 runs
\* in the same turn of the event loop (promise reactions run before any
\* other event is handled); otherwise the call is suspended on the file
\* read.
ExtractResolved(u) ==
    /\ uploads[u].pc = "extracting"
    /\ \E record \in MetadataRecords(uploads[u].file) :
          /\ isExifLoading' = FALSE
          /\ IF ExceedsLimit(uploads[u].file.size)
             THEN \E o \in AnalyzeOutcomes(uploads[u].file) :
                     /\ result' = OnAnalysisFailure([result EXCEPT !.exifData = record])
                     /\ aiError' = AiErrorText(o.error)
                     /\ uploads' = [uploads EXCEPT
                                      ![u].pc = "done",
                                      ![u].exifData = record,
                                      ![u].metadataInput = ExifDataArgument(record),
                                      ![u].outcome = o,
                                      ![u].aiError = AiErrorText(o.error)]
             ELSE /\ result' = [result EXCEPT !.exifData = record]
                  /\ uploads' = [uploads EXCEPT
                                   ![u].pc = "analyzing",
                                   ![u].exifData = record,
                                   ![u].metadataInput = ExifDataArgument(record)]
                  /\ UNCHANGED aiError
    /\ UNCHANGED <<exifVars, formatVars, promptVars, analyzeVars>>

\* extractExifData rejects (lines 201-209).
ExtractRejected(u) ==
    /\ uploads[u].pc = "extracting"
    /\ isExifLoading' = FALSE
    /\ result' = [result EXCEPT !.isLoading = FALSE, !.error = ErrorProcessingImage]
    /\ uploads' = [uploads EXCEPT ![u].pc = "done"]
    /\ UNCHANGED <<aiError, exifVars, formatVars, promptVars, analyzeVars>>

\* analyzeImageWithGemini settles (lines 175-200): its result is stored, or
\* its failure shown.
AnalyzeSettled(u) ==
    /\ uploads[u].pc = "analyzing"
    /\ \E o \in AnalyzeOutcomes(uploads[u].file) :
          IF o.kind = "returned"
          THEN /\ result' = [result EXCEPT !.aiAnalysis = o.result,
                                           !.isLoading = FALSE]
               /\ uploads' = [uploads EXCEPT ![u].pc = "done", ![u].outcome = o]
               /\ UNCHANGED aiError
          ELSE /\ result' = OnAnalysisFailure(result)
               /\ aiError' = AiErrorText(o.error)
               /\ uploads' = [uploads EXCEPT ![u].pc = "done", ![u].outcome = o,
                                             ![u].aiError = AiErrorText(o.error)]
    /\ UNCHANGED <<isExifLoading, exifVars, formatVars, promptVars, analyzeVars>>

NextUpload ==
    \E u \in Uploads :
        \/ HandleImageUpload(u)
        \/ TimerFired(u)
        \/ ExtractResolved(u)
        \/ ExtractRejected(u)
        \/ AnalyzeSettled(u)

SpecUpload ==
    InitUpload /\ [][NextUpload]_vars

(***************************************************************************)
(* Properties of handleImageUpload.                                        *)
(***************************************************************************)
\* The analysis of upload u has failed and the failure been handled.
AnalysisFailed(u) ==
    uploads[u].pc = "done" /\ uploads[u].outcome.kind = "threw"

\* The texts a size-limit failure shows, one for every file over the limit.
SizeLimitTexts ==
    {Str(FileTooLargeError(f.size).message) : f \in {g \in UploadFiles : g.size > 20 * 1024 * 1024}}

\* C15: a failed analysis reaches the user as one of two kinds: the
\* size-limit failure, only for a file over 20 MB and carrying its size, or
\* the generic failure with one uniform text; every error of the encoding
\* or of the outbound call shows as the generic kind, never as the
\* size-limit kind.
C15_TwoFailureKinds ==
    /\ aiError \in {Null, FailedToAnalyze} \cup SizeLimitTexts
    /\ \A u \in Uploads :
          AnalysisFailed(u) =>
              LET file == uploads[u].file
                  shown == uploads[u].aiError
              IN  IF file.size > 20 * 1024 * 1024
                  THEN /\ shown \in SizeLimitTexts
                       /\ ReportsMegabytes(ReportedSize(shown.s), file.size)
                  ELSE /\ uploads[u].outcome.error.name \in {"TypeError", "Error"}
                       /\ shown = FailedToAnalyze
                       /\ shown \notin SizeLimitTexts

\* C15 witness: of two uploads one failed with an error of the outbound
\* call and shows the generic text, the other failed over the size limit.
C15_Witness ==
    /\ AnalysisFailed(1) /\ AnalysisFailed(2)
    /\ uploads[1].outcome.error.name = "Error"
    /\ uploads[1].aiError = FailedToAnalyze
    /\ uploads[2].outcome.error.name = "FileTooLargeError"
    /\ aiError \in SizeLimitTexts

\* No other call of handleImageUpload has been made.
OnlyUpload(u) ==
    \A v \in Uploads \ {u} : uploads[v].pc = "none"

\* C16: when extractExifData has resolved and analyzeImageWithGemini then
\* fails, by either kind, the step that handles the failure changes only
\* aiError and result.isLoading (for a file over the limit, whose failure
\* is handled in the turn that stored the record, result.exifData is that
\* record); result.exifData and result.error stay as they are, so that
\* with no other upload about result.exifData is the extracted record and
\* result.error null.
C16_MetadataKept ==
    /\ [][\A u \in Uploads :
            (uploads[u].pc = "analyzing" /\ AnalysisFailed(u)') =>
                /\ result'.exifData = result.exifData
                /\ result'.error = result.error
                /\ result'.aiAnalysis = result.aiAnalysis
                /\ result'.imageUrl = result.imageUrl
                /\ isExifLoading' = isExifLoading]_vars
    /\ [][\A u \in Uploads :
            (uploads[u].pc = "extracting" /\ AnalysisFailed(u)') =>
                /\ result'.exifData = uploads'[u].exifData
                /\ result'.error = result.error
                /\ result'.aiAnalysis = result.aiAnalysis
                /\ result'.imageUrl = result.imageUrl]_vars
    /\ [](\A u \in Uploads :
            (AnalysisFailed(u) /\ OnlyUpload(u)) =>
                /\ result.exifData = uploads[u].exifData
                /\ result.exifData # EmptyObject
                /\ result.error = Null
                /\ ~result.isLoading
                /\ aiError # Null)

\* C16 witness: the only upload resolved its metadata, failed over the size
\* limit, and the record is still shown.
C16_Witness ==
    /\ AnalysisFailed(1) /\ OnlyUpload(1)
    /\ uploads[1].outcome.error.name = "FileTooLargeError"
    /\ result.exifData = uploads[1].exifData
    /\ Get(result.exifData, "fileName") = Str(<<"p", "i", "c">>)
    /\ result.error = Null

\* No call is suspended at the timer or at an await.
AllSettled ==
    \A u \in Uploads : uploads[u].pc \in {"none", "refused", "done"}

IsLatestImage(u) ==
    /\ uploads[u].pc = "done"
    /\ \A v \in Uploads : v > u => uploads[v].pc \in {"none", "refused"}

\* C20: once all in-flight work has settled, exifData, aiAnalysis and
\* aiError are those computed from the most recently uploaded image, the
\* one imageUrl shows; a late result of an earlier upload never replaces
\* those of a later one.
C20_LatestUploadShown ==
    AllSettled =>
        \A u \in Uploads :
            IsLatestImage(u) =>
                /\ result.imageUrl = ObjectUrl(u)
                /\ result.exifData = uploads[u].exifData
                /\ result.aiAnalysis =
                      (IF uploads[u].outcome.kind = "returned"
                       THEN uploads[u].outcome.result ELSE Null)
                /\ aiError = uploads[u].aiError

\* C21: result.aiAnalysis and aiError are never both non-null, after any
\* sequence of uploads and any interleaving of their completions.
C21_AtMostOneOutcome ==
    ~(result.aiAnalysis # Null /\ aiError # Null)

\* analyzeImageWithGemini has been called for upload u.
AnalysisInvoked(u) ==
    uploads[u].pc = "analyzing" \/ uploads[u].outcome.kind # "pending"

\* extractExifData has rejected for upload u.
ExtractionRejected(u) ==
    uploads[u].pc = "done" /\ uploads[u].outcome.kind = "pending"

\* C22: within one upload the analysis call starts only after
\* extractExifData has resolved and receives the resolved record as its
\* metadata input; when extractExifData rejects, analyzeImageWithGemini is
\* never called for that upload and the rejecting step sets result.error.
C22_AnalysisAfterMetadata ==
    /\ [](\A u \in Uploads :
            /\ AnalysisInvoked(u) =>
                  /\ uploads[u].exifData \in MetadataRecords(uploads[u].file)
                  /\ uploads[u].metadataInput = uploads[u].exifData
            /\ uploads[u].pc \in {"none", "refused", "timer", "extracting"} =>
                  ~AnalysisInvoked(u)
            /\ ExtractionRejected(u) => ~AnalysisInvoked(u))
    /\ [][\A u \in Uploads :
            /\ (~AnalysisInvoked(u) /\ AnalysisInvoked(u)') =>
                  /\ uploads[u].pc = "extracting"
                  /\ result'.exifData = uploads'[u].metadataInput
            /\ (uploads[u].pc = "extracting" /\ ExtractionRejected(u)') =>
                  /\ result'.error = ErrorProcessingImage
                  /\ ~result'.isLoading
                  /\ uploads'[u].metadataInput = EmptyObject
            /\ ExtractionRejected(u) => ExtractionRejected(u)']_vars

\* C22 witness: the first upload was rejected by extractExifData and its
\* error is shown with no analysis called; the second is in its analysis
\* call, which received the record extractExifData resolved with.
C22_Witness ==
    /\ ExtractionRejected(1) /\ ~AnalysisInvoked(1)
    /\ uploads[2].pc = "analyzing"
    /\ uploads[2].metadataInput = uploads[2].exifData
    /\ Get(uploads[2].metadataInput, "fileName") = Str(uploads[2].file.name)
    /\ result.error = ErrorProcessingImage

\* Upload u is the one whose image is shown: the last valid upload made.
IsShownUpload(u) ==
    uploads[u].pc \notin {"none", "refused"} /\ result.imageUrl = ObjectUrl(u)

\* C23: a new valid upload discards the previous outcome before anything
\* new is stored (its call sets exifData to the empty record, aiAnalysis
\* and aiError to null), and an analysis result stored after it is exactly
\* the one returned for the new file, whole.
C23_NewUploadSupersedes ==
    [][\A u \in Uploads :
          /\ (uploads[u].pc = "none" /\ uploads'[u].pc = "timer") =>
                /\ result'.exifData = EmptyObject
                /\ result'.aiAnalysis = Null
                /\ aiError' = Null
                /\ IsShownUpload(u)'
          /\ (uploads[u].pc = "analyzing" /\ uploads'[u].outcome.kind = "returned") =>
                /\ result'.aiAnalysis = uploads'[u].outcome.result
                /\ IsShownUpload(u)]_vars

\* The numeric well-known fields, each with the tag it is read from and the
\* parser applied to the tag's description.
NumericFields ==
    {[key |-> "fNumber", tag |-> "FNumber", float |-> TRUE],
     [key |-> "iso", tag |-> "ISOSpeedRatings", float |-> FALSE],
     [key |-> "gpsAltitude", tag |-> "GPSAltitude", float |-> TRUE],
     [key |-> "gpsLatitude", tag |-> "GPSLatitude", float |-> TRUE],
     [key |-> "gpsLongitude", tag |-> "GPSLongitude", float |-> TRUE],
     [key |-> "imageWidth", tag |-> "ImageWidth", float |-> FALSE],
     [key |-> "imageHeight", tag |-> "ImageHeight", float |-> FALSE]}

\* The description of the field's tag does not parse as a number.
DoesNotParse(tags, f) ==
    /\ f.tag \in DOMAIN tags
    /\ (IF f.float THEN parseFloat(ToText(tags[f.tag]))
        ELSE parseInt(ToText(tags[f.tag]))) = NaN

\* C24: a numeric well-known tag whose description does not parse as a
\* number leaves its field out of the record (absent or undefined) rather
\* than NaN, for fNumber, iso, gpsAltitude, gpsLatitude, gpsLongitude and
\* the dimensions of the tags, and no field of a returned record is NaN.
C24_NeverNaN ==
    \A r \in Runs :
        (Resolved(r) /\ TagsDecoded) =>
            LET rec == promise[r].value
            IN  /\ \A key \in DOMAIN rec : rec[key] # NaN
                /\ \A f \in NumericFields :
                      DoesNotParse(world.tags, f) =>
                          (f.key \in DOMAIN rec =>
                              \/ rec[f.key] = Undef
                              \/ (f.key \in DOMAIN fileInfo[r]
                                  /\ rec[f.key] = fileInfo[r][f.key]))

\* The tags lines 164-223 have stored in a well-known field: the camera
\* tags that are there, and the GPS tags when all four (with the altitude,
\* five) are there.
CapturedTags(tags) ==
    ({"Make", "Model", "DateTime", "ExposureTime", "FNumber",
      "ISOSpeedRatings", "FocalLength"} \cap DOMAIN tags)
    \cup (IF GpsTags \subseteq DOMAIN tags
          THEN (GpsTags \cup {"GPSAltitude"}) \cap DOMAIN tags
          ELSE {})

\* C25: a decoder tag is added to the record under its own native key, with
\* its primitive-coerced description, exactly when no well-known field has
\* captured it; Make, Model, DateTime, ExposureTime, FNumber,
\* ISOSpeedRatings, FocalLength and the GPS tags, once captured, are not
\* added a second time under their native key.
C25_ExtraTagsOnly ==
    \A r \in Runs :
        (Resolved(r) /\ TagsDecoded
         /\ ~ProcessTags(world.tags, fileInfo[r], world.locale).threw) =>
            LET rec == promise[r].value
                tags == world.tags
            IN  \A key \in DOMAIN tags :
                    IF key \in CapturedTags(tags)
                    THEN key \notin DOMAIN rec
                    ELSE (key \notin {"ImageWidth", "ImageHeight"}
                          /\ tags[key] # Undef) =>
                             /\ key \in DOMAIN rec
                             /\ rec[key] \in {safeValue(tags[key]),
                                              Str(JsonStringify(safeValue(tags[key])))}

(***************************************************************************)
(* formatExifDataForPrompt (geminiService.ts 28-92).  The text is built as *)
(* the code builds it: the lines of a section joined by a line feed under  *)
(* the section's heading, the sections joined by two line feeds.           *)
(***************************************************************************)
Lf ==
    "\n"

\* The multiplication sign of line 44.
Times ==
    "TIMES"

\* The labels of lines 36-54, as far as the first placeholder.
PropertyLabels ==
    [fileName |-> <<"F", "i", "l", "e", " ", "N", "a", "m", "e", ":", " ">>,
     fileSize |-> <<"F", "i", "l", "e", " ", "S", "i", "z", "e", ":", " ">>,
     fileType |-> <<"F", "i", "l", "e", " ", "T", "y", "p", "e", ":", " ">>,
     fileExtension |-> <<"F", "i", "l", "e", " ", "E", "x", "t", "e", "n", "s", "i", "o", "n", ":", " ">>,
     dimensions |-> <<"D", "i", "m", "e", "n", "s", "i", "o", "n", "s", ":", " ">>,
     aspectRatio |-> <<"A", "s", "p", "e", "c", "t", " ", "R", "a", "t", "i", "o", ":", " ">>,
     camera |-> <<"C", "a", "m", "e", "r", "a", ":", " ">>,
     dateTime |-> <<"D", "a", "t", "e", " ", "T", "a", "k", "e", "n", ":", " ">>,
     exposureTime |-> <<"E", "x", "p", "o", "s", "u", "r", "e", ":", " ">>,
     fNumber |-> <<"A", "p", "e", "r", "t", "u", "r", "e", ":", " ", "f", "/">>,
     iso |-> <<"I", "S", "O", ":", " ">>,
     focalLength |-> <<"F", "o", "c", "a", "l", " ", "L", "e", "n", "g", "t", "h", ":", " ">>]

\* prop.format(data): the template literals of lines 36-54.
FormatProperty(id, data) ==
    PropertyLabels[id] \o
    (CASE id = "dimensions" ->
            ToText(Get(data, "imageWidth")) \o <<" ", Times, " ">>
            \o ToText(Get(data, "imageHeight")) \o <<" ", "p", "x">>
       [] id = "camera" ->
            ToText(Get(data, "make")) \o <<" ">> \o ToText(Get(data, "model"))
       [] id = "exposureTime" -> ToText(Get(data, "exposureTime")) \o <<"s">>
       [] OTHER -> ToText(Get(data, id)))

\* sectionDefinitions (lines 34-56): the sections in order, each with its
\* properties in order; a property has the keys it needs.
sectionDefinitions ==
    <<[name |-> <<"F", "i", "l", "e", " ", "I", "n", "f", "o", "r", "m", "a", "t", "i", "o", "n">>,
       properties |->
           <<[id |-> "fileName", key |-> {"fileName"}],
             [id |-> "fileSize", key |-> {"fileSize"}],
             [id |-> "fileType", key |-> {"fileType"}],
             [id |-> "fileExtension", key |-> {"fileExtension"}]>>],
      [name |-> <<"I", "m", "a", "g", "e", " ", "I", "n", "f", "o", "r", "m", "a", "t", "i", "o", "n">>,
       properties |->
           <<[id |-> "dimensions", key |-> {"imageWidth", "imageHeight"}],
             [id |-> "aspectRatio", key |-> {"aspectRatio"}]>>],
      [name |-> <<"C", "a", "m", "e", "r", "a", " ", "S", "e", "t", "t", "i", "n", "g", "s">>,
       properties |->
           <<[id |-> "camera", key |-> {"make", "model"}],
             [id |-> "dateTime", key |-> {"dateTime"}],
             [id |-> "exposureTime", key |-> {"exposureTime"}],
             [id |-> "fNumber", key |-> {"fNumber"}],
             [id |-> "iso", key |-> {"iso"}],
             [id |-> "focalLength", key |-> {"focalLength"}]>>]>>

\* The filter of lines 63-69: every key of the property holds a truthy value.
PropertyShown(prop, data) ==
    \A key \in prop.key : Truthy(Get(data, key))

\* properties.filter(...) of lines 62-69.
RECURSIVE FilterProperties(_, _)
FilterProperties(properties, data) ==
    IF properties = <<>> THEN <<>>
    ELSE (IF PropertyShown(Head(properties), data)
          THEN <<Head(properties)>> ELSE <<>>)
         \o FilterProperties(Tail(properties), data)

\* Lines 62-73 for one section: <<the section's text>>, or <<>> for the
\* null that line 75 filters out.
SectionText(section, data) ==
    LET shown == FilterProperties(section.properties, data)
        sectionLines == [i \in 1..Len(shown) |-> FormatProperty(shown[i].id, data)]
    IN  IF Len(sectionLines) > 0
        THEN <<section.name \o <<":", Lf>> \o JoinTexts(sectionLines, <<Lf>>)>>
        ELSE <<>>

\* Lines 78-89: the location section, <<>> when it is not pushed.
LocationSection(data) ==
    IF Truthy(Get(data, "gpsLatitude")) /\ Truthy(Get(data, "gpsLongitude"))
    THEN LET coordinates ==
                 <<"L", "o", "c", "a", "t", "i", "o", "n", " ", "I", "n", "f", "o", "r", "m", "a", "t", "i", "o", "n">>
                 \o <<":", Lf>> \o <<"C", "o", "o", "r", "d", "i", "n", "a", "t", "e", "s", ":", " ">>
                 \o ToText(Get(data, "gpsLatitude")) \o <<",", " ">>
                 \o ToText(Get(data, "gpsLongitude"))
             name == IF Truthy(Get(data, "locationName"))
                     THEN <<<<"L", "o", "c", "a", "t", "i", "o", "n", " ", "N", "a", "m", "e", ":", " ">>
                            \o ToText(Get(data, "locationName"))>>
                     ELSE <<>>
             altitude == IF Truthy(Get(data, "gpsAltitude"))
                         THEN <<<<"A", "l", "t", "i", "t", "u", "d", "e", ":", " ">>
                                \o ToText(Get(data, "gpsAltitude"))>>
                         ELSE <<>>
         IN  <<JoinTexts(<<coordinates>> \o name \o altitude, <<Lf>>)>>
    ELSE <<>>

formatExifDataForPrompt(data) ==
    IF DOMAIN data = {} THEN <<>>
    ELSE JoinTexts(SectionText(sectionDefinitions[1], data)
                   \o SectionText(sectionDefinitions[2], data)
                   \o SectionText(sectionDefinitions[3], data)
                   \o LocationSection(data),
                   <<Lf, Lf>>)

(***************************************************************************)
(* SpecPrompt: formatExifDataForPrompt applied to a metadata record.       *)
(***************************************************************************)
\* The record of the keys that hold a value.
WithoutUndefined(c) ==
    [key \in {x \in DOMAIN c : c[x] # Undef} |-> c[key]]

SingleField(key, v) ==
    [x \in {key} |-> v]

\* Records of the fields the sections are made of: every combination of
\* the paired fields and of the numeric fields (zero among their values),
\* the other fields one at a time, and the records extractExifData
\* resolves with for the files of SpecUpload.
SamplePromptRecords ==
    {WithoutUndefined(c) :
        c \in [fileName : {Undef, Str(<<"a">>)},
               make : {Undef, Str(<<"C", "a", "n", "o", "n">>)},
               model : {Undef, Str(<<"X">>)},
               imageWidth : {Undef, IntNum(0), IntNum(200)},
               imageHeight : {Undef, IntNum(100)},
               iso : {Undef, IntNum(0), IntNum(100)},
               gpsLatitude : {Undef, IntNum(0), Num(105, 1)},
               gpsLongitude : {Undef, IntNum(20)},
               gpsAltitude : {Undef, IntNum(0), IntNum(5)},
               locationName : {Undef, Str(<<"p">>)}]}
    \cup {SingleField("fileSize", Str(formatFileSize(1536))),
          SingleField("fileType", Str(ImageJpeg)),
          SingleField("fileExtension", Str(<<"j", "p", "g">>)),
          SingleField("aspectRatio", Str(aspectRatio(200, 100))),
          SingleField("dateTime", Str(ExifDateText)),
          SingleField("exposureTime", Str(<<"1", "/", "6", "0">>)),
          SingleField("fNumber", Num(28, 1)),
          SingleField("fNumber", IntNum(0)),
          SingleField("focalLength", Str(<<"5", "0", " ", "m", "m">>))}
    \cup UNION {MetadataRecords(file) : file \in UploadFiles}

InitPrompt ==
    /\ promptData \in SamplePromptRecords
    /\ promptText = [done |-> FALSE, text |-> <<>>]
    /\ ExifIdle
    /\ FormatIdle
    /\ AnalyzeIdle
    /\ UploadIdle

FormatExifDataForPromptCall ==
    /\ ~promptText.done
    /\ promptText' = [done |-> TRUE, text |-> formatExifDataForPrompt(promptData)]
    /\ UNCHANGED <<promptData, exifVars, formatVars, analyzeVars, uploadVars>>

NextPrompt ==
    FormatExifDataForPromptCall

SpecPrompt ==
    InitPrompt /\ [][NextPrompt]_vars

(***************************************************************************)
(* Properties of formatExifDataForPrompt.                                  *)
(***************************************************************************)
\* The lines of a text.
RECURSIVE SplitLines(_)
SplitLines(cs) ==
    IF \E i \in 1..Len(cs) : cs[i] = Lf
    THEN LET i == CHOOSE j \in 1..Len(cs) :
                      cs[j] = Lf /\ \A h \in 1..(j - 1) : cs[h] # Lf
         IN  <<SubSeq(cs, 1, i - 1)>> \o SplitLines(SubSeq(cs, i + 1, Len(cs)))
    ELSE <<cs>>

\* The lines of the metadata block, each with its section, the text its
\* line begins with and the fields it shows.
PromptLines ==
    UNION {{[section |-> sectionDefinitions[i].name,
             label |-> PropertyLabels[sectionDefinitions[i].properties[j].id],
             fields |-> sectionDefinitions[i].properties[j].key] :
               j \in 1..Len(sectionDefinitions[i].properties)} :
           i \in 1..Len(sectionDefinitions)}
    \cup {[section |-> <<"L", "o", "c", "a", "t", "i", "o", "n", " ", "I", "n", "f", "o", "r", "m", "a", "t", "i", "o", "n">>,
           label |-> <<"C", "o", "o", "r", "d", "i", "n", "a", "t", "e", "s", ":", " ">>,
           fields |-> {"gpsLatitude", "gpsLongitude"}],
          [section |-> <<"L", "o", "c", "a", "t", "i", "o", "n", " ", "I", "n", "f", "o", "r", "m", "a", "t", "i", "o", "n">>,
           label |-> <<"L", "o", "c", "a", "t", "i", "o", "n", " ", "N", "a", "m", "e", ":", " ">>,
           fields |-> {"locationName"}],
          [section |-> <<"L", "o", "c", "a", "t", "i", "o", "n", " ", "I", "n", "f", "o", "r", "m", "a", "t", "i", "o", "n">>,
           label |-> <<"A", "l", "t", "i", "t", "u", "d", "e", ":", " ">>,
           fields |-> {"gpsAltitude"}]}

\* How many lines of the text begin with the prefix.
CountLines(text, prefix) ==
    LET lines == SplitLines(text)
    IN  Cardinality({i \in 1..Len(lines) : startsWith(lines[i], prefix)})

\* A field of the line (of the section) is present in the record.
LinePresent(data, line) ==
    \E key \in line.fields : key \in DOMAIN data

SectionPresent(data, section) ==
    \E line \in PromptLines : line.section = section /\ LinePresent(data, line)

\* C26: formatExifDataForPrompt emits a section's heading exactly when at
\* least one field of the section is present in the record, and exactly one
\* "Label: value" line for each present field, a make without model, a
\* width without height, an altitude or place name and a numeric field of
\* value 0 included; a section with no present field is left out.
C26_OneLinePerPresentField ==
    promptText.done =>
        /\ \A line \in PromptLines :
              CountLines(promptText.text, line.label) =
                  (IF LinePresent(promptData, line) THEN 1 ELSE 0)
        /\ \A section \in {line.section : line \in PromptLines} :
              CountLines(promptText.text, section \o <<":">>) =
                  (IF SectionPresent(promptData, section) THEN 1 ELSE 0)

(***************************************************************************)
(* Further properties of analyzeImageWithGemini.                           *)
(***************************************************************************)
\* C27: every hashtag of a returned result is prefixed with "#", and the
\* tags and hashtags of a reply that parses as an object are returned in
\* the order the reply gives them, for every reply the model can send.
C27_HashtagsPrefixedInOrder ==
    outcome.kind = "returned" =>
        /\ outcome.result.hashtags.t = "list" =>
              \A i \in 1..Len(outcome.result.hashtags.l) :
                  startsWith(outcome.result.hashtags.l[i].s, <<"#">>)
        /\ (Replied /\ ParsesAsObject) =>
              /\ ReplyFields.tags.t = "list" =>
                    outcome.result.tags = ReplyFields.tags
              /\ ReplyFields.hashtags.t = "list" =>
                    outcome.result.hashtags = ReplyFields.hashtags

(***************************************************************************)
(* renderAiAnalysis (ImageAnalyzer.tsx 525-566): what it shows of a failed *)
(* analysis is a function of the component state.                          *)
(***************************************************************************)
\* text.includes(part)
includes(cs, part) ==
    \E i \in 0..(Len(cs) - Len(part)) : SubSeq(cs, i + 1, i + Len(part)) = part

\* Line 529: the panel "AI Analysis Unavailable" is rendered.
FailurePanelShown ==
    /\ Truthy(aiError)
    /\ DOMAIN result.exifData # {}

\* Lines 541-566: the button "Resize This Image Automatically" is rendered.
ResizeButtonOfferedForAnyFailure ==
    FailurePanelShown

ResizeButtonOffered ==
    /\ FailurePanelShown
    /\ includes(aiError.s, <<"f", "i", "l", "e", " ", "s", "i", "z", "e">>)

\* C28: the resize button is offered exactly when the current analysis
\* failure is the size-limit failure, and never for a generic failure.
C28_ResizeOnlyForSizeLimit ==
    /\ ResizeButtonOffered <=> aiError \in SizeLimitTexts
    /\ aiError = FailedToAnalyze => ~ResizeButtonOffered

\* C28 witness: the first upload failed with an error of the outbound call
\* and showed the generic text; the second failed over the size limit, and
\* the button is offered for it.
C28_Witness ==
    /\ AnalysisFailed(1) /\ uploads[1].aiError = FailedToAnalyze
    /\ AnalysisFailed(2) /\ uploads[2].outcome.error.name = "FileTooLargeError"
    /\ aiError \in SizeLimitTexts
    /\ ResizeButtonOffered

\* C29: the loading flags are released on every path: once the metadata
\* extraction and, if started, the analysis call of every valid upload have
\* settled, isExifLoading and result.isLoading are false, whether a call
\* ended in a result, in an analysis failure of either kind or in a
\* rejected extraction; the step that settles a call sets isLoading false,
\* the step that settles an extraction sets isExifLoading false, and
\* aiAnalysis is never set while isLoading is true.
C29_LoadingReleased ==
    /\ [](AllSettled => (~isExifLoading /\ ~result.isLoading))
    /\ [](result.aiAnalysis # Null => ~result.isLoading)
    /\ [][\A u \in Uploads :
            /\ (uploads[u].pc # "done" /\ uploads'[u].pc = "done") =>
                  ~result'.isLoading
            /\ (uploads[u].pc = "extracting" /\ uploads'[u].pc # "extracting") =>
                  ~isExifLoading']_vars

\* C29 witness: both flags are false after an upload whose extraction was
\* rejected and one whose analysis failed over the size limit.
C29_Witness ==
    /\ AllSettled
    /\ ExtractionRejected(1)
    /\ AnalysisFailed(2)
    /\ uploads[2].outcome.error.name = "FileTooLargeError"
    /\ ~isExifLoading
    /\ ~result.isLoading

\* Upload u was refused for its type.
Refused(u) ==
    uploads[u].pc = "refused"

\* C30: handleImageUpload with a file whose type does not start with
\* "image/" sets result.error and leaves exifData, aiAnalysis, imageUrl,
\* isLoading, isExifLoading and aiError as they are, and starts neither
\* extractExifData nor analyzeImageWithGemini for the file.
C30_RefusalChangesOnlyError ==
    /\ [][\A u \in Uploads :
            (uploads[u].pc = "none" /\ Refused(u)') =>
                /\ ~IsImage(uploads'[u].file)
                /\ result'.error = PleaseUploadValid
                /\ result'.exifData = result.exifData
                /\ result'.aiAnalysis = result.aiAnalysis
                /\ result'.imageUrl = result.imageUrl
                /\ result'.isLoading = result.isLoading
                /\ isExifLoading' = isExifLoading
                /\ aiError' = aiError]_vars
    /\ [][\A u \in Uploads : Refused(u) => uploads'[u] = uploads[u]]_vars
    /\ [](\A u \in Uploads :
            /\ Refused(u) =>
                  (~AnalysisInvoked(u) /\ uploads[u].exifData = EmptyObject)
            /\ (uploads[u].pc \notin {"none", "refused"}) => IsImage(uploads[u].file))

\* C30 witness: the second upload was refused for its type while the state
\* shows the record, the result and the image of the first.
C30_Witness ==
    /\ Refused(2)
    /\ result.error = PleaseUploadValid
    /\ result.exifData = uploads[1].exifData
    /\ result.exifData # EmptyObject
    /\ result.aiAnalysis # Null
    /\ result.imageUrl = ObjectUrl(1)
    /\ ~result.isLoading

====
